---- MODULE Spec2Model ----
(***************************************************************************)
(* A model of the simple-c-compiler pipeline: the regex lexer              *)
(* (src/src/lexer.rs), the recursive-descent parser (src/src/parser.rs),   *)
(* the AST-to-TAC lowerer (src/src/tac.rs) and the TAC-to-assembly backend *)
(* (src/src/generator/from_tac.rs, src/src/generator/x64_translator.rs),   *)
(* and the AST-to-assembly generator of src/src/generator.rs; the register *)
(* table of the backend (Register) has a specification of its own.         *)
(*                                                                         *)
(* Every stage is a deterministic function of its input, so each stage has *)
(* a specification of its own whose initial states draw the input from a   *)
(* bounded set and whose actions run the stage's code on it.  A Rust panic *)
(* (unwrap on None/Err, unimplemented!(), an out-of-range index or slice)  *)
(* is modelled as an outcome of its own, distinct from a returned Err.     *)
(***************************************************************************)
EXTENDS Integers, Sequences, FiniteSets, TLC

VARIABLES
    \* ---- lexer (Lexer::lex) ----
    file,         \* the input read by read_to_string, a sequence of characters
    remain_text,  \* the unread suffix of file
    offset,       \* byte offset of remain_text in file
    lexemes,      \* the tokens produced so far
    lexpc,        \* "run" | "done" | "panic"
    \* ---- parser (parser::parse) ----
    pinput,       \* the shape of the program text the tokens come from
    tokens,       \* the Vec<Token> handed to parse
    presult,      \* what parse did: Ok(Program), Err(ParsingError) or a panic
    ppc,          \* "start" | "done"
    \* ---- TAC lowerer (tac::il) ----
    tinput,       \* the shape of the program
    tprogram,     \* the ast::Program handed to il: its functions in order
    tnext,        \* the index of the function the loop of il is at
    gen,          \* the Generator of il
    funcs,        \* the FuncDefs collected so far
    tpc,          \* "run" | "done" | "panic"
    \* ---- backend (Transit::gen over X64Backend) and the machine ----
    binput,       \* the shape of the instruction list
    bfunc,        \* the tac::FuncDef handed to gen
    bnext,        \* the index of the line the loop of gen is at
    backend,      \* the X64Backend
    machine,      \* the processor running the emitted function
    bpc,          \* "begin" | "lines" | "exec" | "halt" | "panic"
    \* ---- AST-to-assembly generator (generator::gen) and the machine ----
    ginput,       \* the shape of the function
    gcode,        \* what AsmFunc::gen returned: Ok(the lines of code) or Err
    gmachine,     \* the processor running the lines
    gpc,          \* "start" | "exec" | "halt" | "error"
    \* ---- register table (Register::new, size, cast) ----
    rinput,       \* the register name and the size of the cast
    rreg,         \* the Register the calls have produced so far
    rsize,        \* what size() returned for the register of the name
    rpc           \* "new" | "size" | "cast" | "back" | "done" | "panic"

lexVars == <<file, remain_text, offset, lexemes, lexpc>>
parseVars == <<pinput, tokens, presult, ppc>>
tacVars == <<tinput, tprogram, tnext, gen, funcs, tpc>>
backendVars == <<binput, bfunc, bnext, backend, machine, bpc>>
asmVars == <<ginput, gcode, gmachine, gpc>>
regVars == <<rinput, rreg, rsize, rpc>>
vars == <<lexVars, parseVars, tacVars, backendVars, asmVars, regVars>>
notLexVars == <<parseVars, tacVars, backendVars, asmVars, regVars>>
notParseVars == <<lexVars, tacVars, backendVars, asmVars, regVars>>
notTacVars == <<lexVars, parseVars, backendVars, asmVars, regVars>>
notBackendVars == <<lexVars, parseVars, tacVars, asmVars, regVars>>
notAsmVars == <<lexVars, parseVars, tacVars, backendVars, regVars>>
notRegVars == <<lexVars, parseVars, tacVars, backendVars, asmVars>>

(***************************************************************************)
(* Generic helpers.                                                        *)
(***************************************************************************)
Drop(s, n) == SubSeq(s, n + 1, Len(s))
Take(s, n) == SubSeq(s, 1, n)

\* Option<T>: None is <<>>, Some(v) is <<v>>.
None == <<>>
Some(v) == <<v>>

RECURSIVE SeqsUpTo(_, _)
SeqsUpTo(S, n) ==
    IF n = 0 THEN {<<>>}
    ELSE LET shorter == SeqsUpTo(S, n - 1)
         IN  shorter \cup {Append(s, c) : s \in {t \in shorter : Len(t) = n - 1}, c \in S}

(***************************************************************************)
(* LEXER  (src/src/lexer.rs)                                               *)
(***************************************************************************)

\* Longest input drawn from LexAlphabet.
MaxInputLen == 4

\* Character classes of the regex crate (Unicode-aware \w and \d, ASCII [a-zA-Z]).
AsciiLetters == {"i", "n", "t", "x", "r", "e", "u"}
Digits == {"0", "1"}
\* "é" stands for any non-ASCII letter: it is in \w, not in [a-zA-Z], and is two
\* bytes of UTF-8.
WideLetters == {"é"}
WordChars == AsciiLetters \cup Digits \cup {"_"} \cup WideLetters

\* Utf8Width: the number of bytes of a character in the &str.
Utf8Width(c) == IF c \in WideLetters THEN 2 ELSE 1

RECURSIVE ByteLen(_)
ByteLen(s) == IF s = <<>> THEN 0 ELSE Utf8Width(Head(s)) + ByteLen(Tail(s))

\* The characters of s that lie in the byte range [start, end).
RECURSIVE ByteSlice(_, _, _)
ByteSlice(s, start, end) ==
    IF s = <<>> \/ end <= 0 THEN <<>>
    ELSE LET w == Utf8Width(Head(s))
         IN  IF start <= 0
                THEN <<Head(s)>> \o ByteSlice(Tail(s), 0, end - w)
                ELSE ByteSlice(Tail(s), start - w, end - w)

\* Is byte index n a character boundary of s (str::is_char_boundary)?
RECURSIVE IsCharBoundary(_, _)
IsCharBoundary(s, n) ==
    IF n = 0 THEN TRUE
    ELSE IF s = <<>> \/ n < 0 THEN FALSE
    ELSE IsCharBoundary(Tail(s), n - Utf8Width(Head(s)))

\* Length of the longest prefix of text whose characters are all in S.
RECURSIVE RunLen(_, _)
RunLen(text, S) ==
    IF text = <<>> \/ Head(text) \notin S THEN 0 ELSE 1 + RunLen(Tail(text), S)

HasPrefix(text, p) == Len(text) >= Len(p) /\ Take(text, Len(p)) = p

\* TokenDefinition::check for each regex of Lexer::new, as the length in
\* characters of the match at the start of text (every regex is anchored by ^);
\* 0 is None (no regex here matches the empty string).
RegexMatchLen(token, text) ==
    CASE token = "Int" ->                                     \* ^int
            IF HasPrefix(text, <<"i", "n", "t">>) THEN 3 ELSE 0
      [] token = "Return" ->                                  \* ^\breturn\b
            IF /\ HasPrefix(text, <<"r", "e", "t", "u", "r", "n">>)
               /\ (Len(text) = 6 \/ text[7] \notin WordChars)
            THEN 6 ELSE 0
      [] token = "Identifier" ->                              \* ^[a-zA-Z]\w*
            IF text # <<>> /\ Head(text) \in AsciiLetters
            THEN 1 + RunLen(Tail(text), WordChars) ELSE 0
      [] token = "IntegerLiteral" -> RunLen(text, Digits)     \* ^\d+
      [] token = "OpenParenthesis" -> IF HasPrefix(text, <<"(">>) THEN 1 ELSE 0
      [] token = "CloseParenthesis" -> IF HasPrefix(text, <<")">>) THEN 1 ELSE 0
      [] token = "OpenBrace" -> IF HasPrefix(text, <<"{">>) THEN 1 ELSE 0
      [] token = "CloseBrace" -> IF HasPrefix(text, <<"}">>) THEN 1 ELSE 0
      [] token = "Semicolon" -> IF HasPrefix(text, <<";">>) THEN 1 ELSE 0
      [] token = "Negation" -> IF HasPrefix(text, <<"-">>) THEN 1 ELSE 0
      [] token = "BitwiseComplement" -> IF HasPrefix(text, <<"~">>) THEN 1 ELSE 0
      [] token = "LogicalNegation" -> IF HasPrefix(text, <<"!">>) THEN 1 ELSE 0
      [] token = "Addition" -> IF HasPrefix(text, <<"+">>) THEN 1 ELSE 0
      [] token = "Multiplication" -> IF HasPrefix(text, <<"*">>) THEN 1 ELSE 0
      [] token = "Division" -> IF HasPrefix(text, <<"/">>) THEN 1 ELSE 0

\* Lexer::new: the definitions in the order find_match tries them.
definition ==
    << "Int", "Return", "Identifier", "IntegerLiteral", "OpenParenthesis",
       "CloseParenthesis", "OpenBrace", "CloseBrace", "Semicolon", "Negation",
       "BitwiseComplement", "LogicalNegation", "Addition", "Multiplication",
       "Division" >>

\* TokenDefinition::check: Some(TokenMatch) or None.
check(token, text) ==
    LET n == RegexMatchLen(token, text)
    IN  IF n = 0 THEN None
        ELSE Some([ token |-> token,
                    value |-> Take(text, n),
                    pos |-> [start |-> 0, end |-> ByteLen(Take(text, n))],
                    remainingText |-> Drop(text, n) ])

\* Lexer::find_match: the first definition, in order, that matches.
find_match(text) ==
    LET hits == {i \in 1..Len(definition) : check(definition[i], text) # None}
    IN  IF hits = {} THEN None
        ELSE check(definition[CHOOSE i \in hits : \A j \in hits : i <= j], text)

\* Lexer::create_token_from_match.
create_token_from_match(m) ==
    [ token_type |-> m.token,
      pos |-> m.pos,
      val |-> IF m.token \in {"Identifier", "IntegerLiteral"} THEN Some(m.value) ELSE None ]

\* Lexer::lex, the Some(m) arm of the loop body.
lex_some(m, off) ==
    LET token == create_token_from_match(m)
        shifted == [token EXCEPT !.pos = [start |-> @.start + off, end |-> @.end + off]]
    IN  [ remain_text |-> m.remainingText,
          token |-> shifted,
          offset |-> shifted.pos.end ]

\* A variant of the None arm that drops the character without counting it.
lex_none_uncounted(text, off) == [remain_text |-> Tail(text), offset |-> off]

\* Lexer::lex, the None arm of the loop body (&remain_text[1..] is taken only on
\* a character boundary).
lex_none(text, off) == [remain_text |-> Tail(text), offset |-> off + 1]

LexCurated ==
    { <<"r", "e", "t", "u", "r", "n">>,
      <<"r", "e", "t", "u", "r", "n", ";">>,
      <<"r", "e", "t", "u", "r", "n", " ", "1">>,
      <<"r", "e", "t", "u", "r", "n", "x">>,
      <<"r", "e", "t", "u", "r", "n", "1">>,
      <<"r", "e", "t", "u", "r", "n", "é">>,
      <<"i", "n", "t", "e", "r">>,
      <<"i", "n", "t", " ", "x", "(", ")", "{", "}">>,
      <<"-", "~", "!", "+", "*", "/">>,
      <<"x", "_", "1", " ", "_", "x">> }

LexAlphabet == {"i", "n", "t", "x", "1", ";", " ", "é"}

LexInputs == SeqsUpTo(LexAlphabet, MaxInputLen) \cup LexCurated

\* The value of the variables of a stage that is not running.
Idle == "idle"
LexIdle == file = Idle /\ remain_text = Idle /\ offset = Idle /\ lexemes = Idle /\ lexpc = Idle
ParseIdle == pinput = Idle /\ tokens = Idle /\ presult = Idle /\ ppc = Idle
TacIdle ==
    tinput = Idle /\ tprogram = Idle /\ tnext = Idle /\ gen = Idle /\ funcs = Idle /\ tpc = Idle
BackendIdle ==
    /\ binput = Idle /\ bfunc = Idle /\ bnext = Idle
    /\ backend = Idle /\ machine = Idle /\ bpc = Idle
AsmIdle == ginput = Idle /\ gcode = Idle /\ gmachine = Idle /\ gpc = Idle
RegIdle == rinput = Idle /\ rreg = Idle /\ rsize = Idle /\ rpc = Idle

InitLex ==
    /\ ParseIdle /\ TacIdle /\ BackendIdle /\ AsmIdle /\ RegIdle
    /\ file \in LexInputs
    /\ remain_text = file
    /\ offset = 0
    /\ lexemes = <<>>
    /\ lexpc = "run"

\* One iteration of the while loop of Lexer::lex that finds a match.
LexMatch ==
    /\ lexpc = "run"
    /\ remain_text # <<>>
    /\ find_match(remain_text) # None
    /\ LET r == lex_some(find_match(remain_text)[1], offset)
       IN  /\ remain_text' = r.remain_text
           /\ offset' = r.offset
           /\ lexemes' = Append(lexemes, r.token)
    /\ UNCHANGED <<file, lexpc>>
    /\ UNCHANGED notLexVars

\* One iteration that finds no match and skips a one-byte character.
LexSkip ==
    /\ lexpc = "run"
    /\ remain_text # <<>>
    /\ find_match(remain_text) = None
    /\ IsCharBoundary(remain_text, 1)
    /\ LET r == lex_none(remain_text, offset)
       IN  /\ remain_text' = r.remain_text
           /\ offset' = r.offset
    /\ UNCHANGED <<file, lexemes, lexpc>>
    /\ UNCHANGED notLexVars

\* No match at a multi-byte character: &remain_text[1..] is not on a character
\* boundary and the slice panics.
LexPanic ==
    /\ lexpc = "run"
    /\ remain_text # <<>>
    /\ find_match(remain_text) = None
    /\ ~IsCharBoundary(remain_text, 1)
    /\ lexpc' = "panic"
    /\ UNCHANGED <<file, remain_text, offset, lexemes>>
    /\ UNCHANGED notLexVars

\* The loop ends and lex returns lexemes.
LexReturn ==
    /\ lexpc = "run"
    /\ remain_text = <<>>
    /\ lexpc' = "done"
    /\ UNCHANGED <<file, remain_text, offset, lexemes>>
    /\ UNCHANGED notLexVars

NextLex == LexMatch \/ LexSkip \/ LexPanic \/ LexReturn

SpecLex == InitLex /\ [][NextLex]_vars

(***************************************************************************)
(* Lexer claims.                                                           *)
(***************************************************************************)

\* The text of file from byte offset start to the end.
SuffixAt(start) == ByteSlice(file, start, ByteLen(file))
TokenText(t) == ByteSlice(file, t.pos.start, t.pos.end)
InsideToken(p) == \E i \in 1..Len(lexemes) : lexemes[i].pos.start <= p /\ p < lexemes[i].pos.end

\* The longest-match discipline: of all definitions that match, the one with the
\* longest match, and on equal length the one that comes first (keywords come
\* before Identifier).
find_match_longest(text) ==
    LET hits == {i \in 1..Len(definition) : check(definition[i], text) # None}
        len(i) == Len(check(definition[i], text)[1].value)
    IN  IF hits = {} THEN None
        ELSE LET best == CHOOSE i \in hits :
                            \A j \in hits : len(j) < len(i) \/ (len(j) = len(i) /\ i <= j)
             IN  check(definition[best], text)

\* C6: the lexer is longest-match: every emitted token is the token of the
\* pattern that matches the longest prefix of the text at its scan position
\* (a keyword winning over Identifier only at equal length), so a word that
\* starts with a keyword, like intx, is one Identifier.
C6_LongestMatch ==
    \A i \in 1..Len(lexemes) :
        LET t == lexemes[i]
            m == find_match_longest(SuffixAt(t.pos.start))
        IN  /\ m # None
            /\ t.token_type = m[1].token
            /\ t.pos.end - t.pos.start = m[1].pos.end

Tok(tt) == [token_type |-> tt, val |-> None]
Ident(name) == [token_type |-> "Identifier", val |-> Some(name)]
IntLit(digits) == [token_type |-> "IntegerLiteral", val |-> Some(digits)]

\* str::parse::<i64> on the literals the inputs use.
ParseInt(digits) == CASE digits = "0" -> 0 [] digits = "1" -> 1 [] digits = "2" -> 2

\* ast::Exp
Var(name) == [e |-> "Var", name |-> name]
Const(val) == [e |-> "Const", val |-> val]
BinOp(op, l, r) == [e |-> "BinOp", op |-> op, l |-> l, r |-> r]
UnOp(op, exp) == [e |-> "UnOp", op |-> op, exp |-> exp]
Assign(name, exp) == [e |-> "Assign", name |-> name, exp |-> exp]
AssignOp(name, op, exp) == [e |-> "AssignOp", name |-> name, op |-> op, exp |-> exp]

\* Result<(T, Vec<Token>)>, and a panic of the thread.
Ok(val, toks) == [kind |-> "Ok", val |-> val, tokens |-> toks]
Err == [kind |-> "Err"]
Panic == [kind |-> "Panic"]
\* Result::unwrap: an Err panics.
unwrap(r) == IF r.kind = "Err" THEN Panic ELSE r

\* map_token_to_ast (Some(op) for the tokens below, None for every other).
BinOpTokens ==
    { "BitwiseXor", "BitwiseOr", "BitwiseAnd", "Addition", "Negation", "Multiplication",
      "Division", "Modulo", "And", "Or", "Equal", "NotEqual", "LessThan",
      "LessThanOrEqual", "GreaterThan", "GreaterThanOrEqual", "BitwiseLeftShift",
      "BitwiseRightShift" }
map_token_to_ast(t) == IF t = "Negation" THEN "Sub" ELSE t

\* map_token_to_unop
map_token_to_unop(t) == t

\* map_inc_dec_token_to_unop
map_inc_dec_token_to_unop(t, postfix) ==
    IF postfix
        THEN (IF t = "Increment" THEN "IncrementPostfix" ELSE "DecrementPostfix")
        ELSE (IF t = "Increment" THEN "IncrementPrefix" ELSE "DecrementPrefix")

\* The assignment tokens parse_exp looks for after an identifier, with the
\* ast::AssignmentOp each compound one yields.
CompoundAssignTokens ==
    { "AssignmentPlus", "AssignmentSub", "AssignmentMul", "AssignmentDiv", "AssignmentMod",
      "AssignmentBitLeftShift", "AssignmentBitRightShift", "AssignmentBitAnd",
      "AssignmentBitOr", "AssignmentBitXor" }
AssignmentOpOf(t) ==
    CASE t = "AssignmentPlus" -> "Plus"
      [] t = "AssignmentSub" -> "Sub"
      [] t = "AssignmentMul" -> "Mul"
      [] t = "AssignmentDiv" -> "Div"
      [] t = "AssignmentMod" -> "Mod"
      [] t = "AssignmentBitLeftShift" -> "BitLeftShift"
      [] t = "AssignmentBitRightShift" -> "BitRightShift"
      [] t = "AssignmentBitAnd" -> "BitAnd"
      [] t = "AssignmentBitOr" -> "BitOr"
      [] t = "AssignmentBitXor" -> "BitXor"

\* The parsing functions call each other through call_parse, which names the
\* function to call: it stands for the ParsExpFunc argument of parse_expr and for
\* every direct call of one parsing function by another.
RECURSIVE call_parse(_, _)

\* A variant of the tree parse_expr builds, with the operands exchanged.
fold_binop_swapped(op, exp, right) == BinOp(op, right, exp)

\* parse_expr, line 49: the tree built for one more operator and operand.
fold_binop(op, exp, right) == BinOp(op, exp, right)

\* parse_expr, the while loop.
RECURSIVE parse_expr_loop(_, _, _, _)
parse_expr_loop(parse, opt_tokens, exp, toks) ==
    IF toks = <<>> \/ toks[1].token_type \notin opt_tokens
        THEN Ok(exp, toks)
        ELSE LET tok_type == toks[1].token_type
                 right == call_parse(parse, Tail(toks))
             IN  IF right.kind # "Ok" THEN right
                 ELSE parse_expr_loop(parse, opt_tokens,
                                      fold_binop(map_token_to_ast(tok_type), exp, right.val),
                                      right.tokens)

\* parse_expr
parse_expr(parse, opt_tokens, toks) ==
    LET first == call_parse(parse, toks)
    IN  IF first.kind # "Ok" THEN first
        ELSE parse_expr_loop(parse, opt_tokens, first.val, first.tokens)

\* A variant of the right-hand side of an assignment that stops at the first
\* operator-free expression instead of recursing into parse_exp.
parse_assignment_rhs_flat(toks) == parse_expr("parse_or_expr", {"Or"}, toks)

\* parse_exp, lines 122, 129, ...: the right-hand side of an assignment.
parse_assignment_rhs(toks) == call_parse("parse_exp", toks)

\* parse_exp (tokens[0] and tokens[1] are index expressions: they panic when the
\* vector is that short).
parse_exp(toks) ==
    IF Len(toks) < 1 THEN Panic
    ELSE IF toks[1].token_type # "Identifier"
        THEN parse_expr("parse_or_expr", {"Or"}, toks)
    ELSE IF Len(toks) < 2 THEN Panic
    ELSE IF toks[2].token_type = "Assignment"
        THEN LET rhs == parse_assignment_rhs(Drop(toks, 2))
             IN  IF rhs.kind # "Ok" THEN rhs
                 ELSE Ok(Assign(toks[1].val[1], rhs.val), rhs.tokens)
    ELSE IF toks[2].token_type \in CompoundAssignTokens
        THEN LET rhs == parse_assignment_rhs(Drop(toks, 2))
             IN  IF rhs.kind # "Ok" THEN rhs
                 ELSE Ok(AssignOp(toks[1].val[1], AssignmentOpOf(toks[2].token_type), rhs.val),
                         rhs.tokens)
    ELSE parse_expr("parse_or_expr", {"Or"}, toks)

parse_or_expr(toks) == parse_expr("parse_and_expr", {"Or"}, toks)

parse_and_expr(toks) == parse_expr("parse_equality_expr", {"And"}, toks)

parse_equality_expr(toks) == parse_expr("parse_relational_expr", {"Equal", "NotEqual"}, toks)

parse_relational_expr(toks) ==
    parse_expr("parse_addictive_expr",
               {"GreaterThan", "GreaterThanOrEqual", "LessThan", "LessThanOrEqual"}, toks)

parse_addictive_expr(toks) == parse_expr("parse_bitwise_expr", {"Addition", "Negation"}, toks)

parse_bitwise_expr(toks) ==
    parse_expr("parse_un_op_term", {"BitwiseLeftShift", "BitwiseRightShift"}, toks)

parse_un_op_term(toks) ==
    parse_expr("parse_term", {"BitwiseAnd", "BitwiseOr", "BitwiseXor"}, toks)

parse_term(toks) == parse_expr("parse_factor", {"Multiplication", "Modulo", "Division"}, toks)

\* parse_inc_dec_expr (called with a non-empty vector only)
parse_inc_dec_expr(toks) ==
    IF toks[1].token_type \in {"Increment", "Decrement"}
        THEN LET inner == unwrap(parse_expr("parse_factor", {"Or"}, Tail(toks)))
             IN  IF inner.kind # "Ok" THEN inner
                 ELSE Ok(UnOp(map_inc_dec_token_to_unop(toks[1].token_type, FALSE), inner.val),
                         inner.tokens)
        ELSE Err

\* parse_factor
parse_factor(toks) ==
    IF toks = <<>> THEN Panic                                 \* tokens.get(0).unwrap()
    ELSE LET tt == toks[1].token_type
         IN  CASE tt = "OpenParenthesis" ->
                    LET inner == unwrap(call_parse("parse_exp", Tail(toks)))
                    IN  IF inner.kind # "Ok" THEN inner
                        ELSE IF inner.tokens = <<>> THEN Panic        \* tokens.remove(0)
                        ELSE IF inner.tokens[1].token_type # "CloseParenthesis" THEN Err
                        ELSE Ok(inner.val, Tail(inner.tokens))
               [] tt = "Identifier" ->
                    LET var == Var(toks[1].val[1])
                        rest == Tail(toks)
                    IN  IF rest # <<>> /\ rest[1].token_type \in {"Decrement", "Increment"}
                            THEN Ok(UnOp(map_inc_dec_token_to_unop(rest[1].token_type, TRUE), var),
                                    Tail(rest))
                            ELSE Ok(var, rest)
               [] tt = "IntegerLiteral" -> Ok(Const(ParseInt(toks[1].val[1])), Tail(toks))
               [] tt \in {"Negation", "LogicalNegation", "BitwiseComplement"} ->
                    LET inner == unwrap(parse_expr("parse_factor", {"Or"}, Tail(toks)))
                    IN  IF inner.kind # "Ok" THEN inner
                        ELSE Ok(UnOp(map_token_to_unop(tt), inner.val), inner.tokens)
               [] OTHER -> call_parse("parse_inc_dec_expr", toks)

\* compare_token
compare_token(tok, tok_type) == IF tok.token_type = tok_type THEN Ok(tok, <<>>) ELSE Err

\* tokens.remove(0) followed by compare_token(.., tok_type): a panic on an empty
\* vector, else compare_token's result with the rest of the tokens.
expect_token(toks, tok_type) ==
    IF toks = <<>> THEN Panic
    ELSE LET c == compare_token(toks[1], tok_type)
         IN  IF c.kind = "Ok" THEN Ok(c.val, Tail(toks)) ELSE c

\* parse_statement
parse_statement(toks) ==
    IF toks = <<>> THEN Panic                                 \* tokens.get(0).unwrap()
    ELSE LET st == IF toks[1].token_type = "Return"
                      THEN LET r == unwrap(call_parse("parse_exp", Tail(toks)))
                           IN  IF r.kind # "Ok" THEN r
                               ELSE Ok([s |-> "Return", exp |-> r.val], r.tokens)
                      ELSE LET r == call_parse("parse_exp", toks)
                           IN  IF r.kind # "Ok" THEN r
                               ELSE Ok([s |-> "Exp", exp |-> r.val], r.tokens)
         IN  IF st.kind # "Ok" THEN st
             ELSE LET semi == unwrap(expect_token(st.tokens, "Semicolon"))
                  IN  IF semi.kind # "Ok" THEN semi ELSE Ok(st.val, semi.tokens)

\* parse_block_item
parse_block_item(toks) ==
    IF toks # <<>> /\ toks[1].token_type = "Int"
        THEN LET var == expect_token(Tail(toks), "Identifier")
             IN  IF var.kind # "Ok" THEN var
                 ELSE LET init == IF var.tokens # <<>> /\ var.tokens[1].token_type = "Assignment"
                                     THEN LET r == call_parse("parse_exp", Tail(var.tokens))
                                          IN  IF r.kind # "Ok" THEN r
                                              ELSE Ok(Some(r.val), r.tokens)
                                     ELSE Ok(None, var.tokens)
                      IN  IF init.kind # "Ok" THEN init
                          ELSE LET semi == unwrap(expect_token(init.tokens, "Semicolon"))
                               IN  IF semi.kind # "Ok" THEN semi
                                   ELSE Ok([b |-> "Declaration", name |-> var.val.val[1],
                                            exp |-> init.val], semi.tokens)
        ELSE LET st == call_parse("parse_statement", toks)
             IN  IF st.kind # "Ok" THEN st
                 ELSE Ok([b |-> "Statement", st |-> st.val], st.tokens)

\* parse_func, the loop over the block items up to the closing brace.
RECURSIVE parse_func_blocks(_, _)
parse_func_blocks(blocks, toks) ==
    IF toks = <<>> THEN Panic                                 \* tokens.get(0).unwrap()
    ELSE IF toks[1].token_type = "CloseBrace" THEN Ok(blocks, Tail(toks))
    ELSE LET item == unwrap(call_parse("parse_block_item", toks))
         IN  IF item.kind # "Ok" THEN item
             ELSE parse_func_blocks(Append(blocks, item.val), item.tokens)

\* parse_func
parse_func(toks) ==
    LET t1 == unwrap(expect_token(toks, "Int"))
        t2 == unwrap(expect_token(t1.tokens, "Identifier"))
        t3 == unwrap(expect_token(t2.tokens, "OpenParenthesis"))
        t4 == unwrap(expect_token(t3.tokens, "CloseParenthesis"))
        t5 == unwrap(expect_token(t4.tokens, "OpenBrace"))
    IN  IF t1.kind # "Ok" THEN t1
        ELSE IF t2.kind # "Ok" THEN t2
        ELSE IF t3.kind # "Ok" THEN t3
        ELSE IF t4.kind # "Ok" THEN t4
        ELSE IF t5.kind # "Ok" THEN t5
        ELSE LET body == parse_func_blocks(<<>>, t5.tokens)
             IN  IF body.kind # "Ok" THEN body
                 ELSE Ok([name |-> t2.val.val[1], blocks |-> body.val], body.tokens)

\* The function named parse, applied to toks.
call_parse(parse, toks) ==
    CASE parse = "parse_exp" -> parse_exp(toks)
      [] parse = "parse_or_expr" -> parse_or_expr(toks)
      [] parse = "parse_and_expr" -> parse_and_expr(toks)
      [] parse = "parse_equality_expr" -> parse_equality_expr(toks)
      [] parse = "parse_relational_expr" -> parse_relational_expr(toks)
      [] parse = "parse_addictive_expr" -> parse_addictive_expr(toks)
      [] parse = "parse_bitwise_expr" -> parse_bitwise_expr(toks)
      [] parse = "parse_un_op_term" -> parse_un_op_term(toks)
      [] parse = "parse_term" -> parse_term(toks)
      [] parse = "parse_factor" -> parse_factor(toks)
      [] parse = "parse_inc_dec_expr" -> parse_inc_dec_expr(toks)
      [] parse = "parse_statement" -> parse_statement(toks)
      [] parse = "parse_block_item" -> parse_block_item(toks)
      [] parse = "parse_func" -> parse_func(toks)

\* parse: Ok(Program(decl)), the error of parse_func, or its panic.
parse(toks) ==
    LET f == call_parse("parse_func", toks)
    IN  IF f.kind # "Ok" THEN f ELSE [kind |-> "Ok", val |-> [decl |-> f.val], tokens |-> <<>>]

(***************************************************************************)
(* Parser inputs: `int main ( ) { <statement> }` whose one statement holds  *)
(* an operator chain `a op1 b op2 c ...` or an assignment chain            *)
(* `a op1= b op2= c`, whole or with one token missing or cut short.        *)
(***************************************************************************)

\* Most operators in a chain of operators of one precedence level.
MaxChainOps == 3
\* Most assignment operators in an assignment chain.
MaxAssignOps == 2

OperandNames == <<"a", "b", "c", "d", "e", "f">>

\* The precedence level of each binary operator token in the grammar of the
\* specification, lowest first.
GrammarLevel(t) ==
    CASE t = "Or" -> 1
      [] t = "And" -> 2
      [] t = "BitwiseOr" -> 3
      [] t = "BitwiseXor" -> 4
      [] t = "BitwiseAnd" -> 5
      [] t \in {"Equal", "NotEqual"} -> 6
      [] t \in {"LessThan", "LessThanOrEqual", "GreaterThan", "GreaterThanOrEqual"} -> 7
      [] t \in {"BitwiseLeftShift", "BitwiseRightShift"} -> 8
      [] t \in {"Addition", "Negation"} -> 9
      [] t \in {"Multiplication", "Division", "Modulo"} -> 10

SameLevel(ops) == \A i, j \in 1..Len(ops) : GrammarLevel(ops[i]) = GrammarLevel(ops[j])

AssignTokens == {"Assignment"} \cup CompoundAssignTokens

ChainOps ==
    SeqsUpTo(BinOpTokens, 2)
        \cup {ops \in UNION {[1..n -> BinOpTokens] : n \in 3..MaxChainOps} : SameLevel(ops)}

NoDefect == [kind |-> "none", at |-> 0]
StatementKinds == {"Return", "Exp", "Declare"}

WholeInputs ==
    {[shape |-> "chain", stmt |-> k, ops |-> ops, defect |-> NoDefect] :
        k \in StatementKinds, ops \in ChainOps}
    \cup
    {[shape |-> "assign", stmt |-> k, ops |-> ops, defect |-> NoDefect] :
        k \in StatementKinds, ops \in SeqsUpTo(AssignTokens, MaxAssignOps) \ {<<>>}}

RECURSIVE ChainTokens(_, _)
ChainTokens(ops, i) ==
    IF i > Len(ops) THEN <<>>
    ELSE <<Tok(ops[i]), Ident(OperandNames[i + 1])>> \o ChainTokens(ops, i + 1)

RECURSIVE AssignChainTokens(_, _)
AssignChainTokens(ops, i) ==
    IF i > Len(ops) THEN <<Ident(OperandNames[i])>>
    ELSE <<Ident(OperandNames[i]), Tok(ops[i])>> \o AssignChainTokens(ops, i + 1)

\* `<un> a <bin> b`: a prefix operator before the left operand of a binary one.
PrefixTokens == {"Negation", "LogicalNegation", "BitwiseComplement", "Increment", "Decrement"}
UnaryInputs ==
    {[shape |-> "unary", stmt |-> k, ops |-> <<un, bin>>, defect |-> NoDefect] :
        k \in StatementKinds, un \in PrefixTokens, bin \in BinOpTokens}

ExprTokens(in) ==
    CASE in.shape = "chain" -> <<Ident("a")>> \o ChainTokens(in.ops, 1)
      [] in.shape = "assign" -> AssignChainTokens(in.ops, 1)
      [] in.shape = "unary" -> <<Tok(in.ops[1]), Ident("a"), Tok(in.ops[2]), Ident("b")>>

StatementTokens(in) ==
    CASE in.stmt = "Return" -> <<Tok("Return")>> \o ExprTokens(in) \o <<Tok("Semicolon")>>
      [] in.stmt = "Exp" -> ExprTokens(in) \o <<Tok("Semicolon")>>
      [] in.stmt = "Declare" ->
            <<Tok("Int"), Ident("x"), Tok("Assignment")>> \o ExprTokens(in) \o <<Tok("Semicolon")>>

WholeTokens(in) ==
    << Tok("Int"), Ident("main"), Tok("OpenParenthesis"), Tok("CloseParenthesis"),
       Tok("OpenBrace") >> \o StatementTokens(in) \o <<Tok("CloseBrace")>>

\* The tokens whose loss leaves no program of the grammar: each token of the
\* function header, the statement's semicolon and the closing brace.
RequiredPositions(in) ==
    LET n == Len(WholeTokens(in)) IN (1..5) \cup {n - 1, n}

\* Defective inputs are made from the short whole inputs.
DefectiveInputs ==
    UNION { {[in EXCEPT !.defect = [kind |-> "drop", at |-> i]] : i \in RequiredPositions(in)}
              \cup
            {[in EXCEPT !.defect = [kind |-> "truncate", at |-> i]] :
                i \in 0..(Len(WholeTokens(in)) - 1)}
          : in \in {w \in WholeInputs : Len(w.ops) <= 1} }

ParseInputs == WholeInputs \cup DefectiveInputs \cup UnaryInputs

InputTokens(in) ==
    LET whole == WholeTokens(in)
    IN  CASE in.defect.kind = "none" -> whole
          [] in.defect.kind = "drop" ->
                Take(whole, in.defect.at - 1) \o Drop(whole, in.defect.at)
          [] in.defect.kind = "truncate" -> Take(whole, in.defect.at)

InitParse ==
    /\ LexIdle /\ TacIdle /\ BackendIdle /\ AsmIdle /\ RegIdle
    /\ pinput \in ParseInputs
    /\ tokens = InputTokens(pinput)
    /\ presult = None
    /\ ppc = "start"

\* parser::parse(tokens)
ParseProgram ==
    /\ ppc = "start"
    /\ presult' = parse(tokens)
    /\ ppc' = "done"
    /\ UNCHANGED <<pinput, tokens>>
    /\ UNCHANGED notParseVars

NextParse == ParseProgram

SpecParse == InitParse /\ [][NextParse]_vars

(***************************************************************************)
(* Parser claims.                                                          *)
(***************************************************************************)

Parsed == ppc = "done" /\ pinput.defect.kind = "none"

\* The expression of the one statement of the parsed function.
ParsedExp ==
    LET item == presult.val.decl.blocks[1]
    IN  IF pinput.stmt = "Declare" THEN item.exp[1] ELSE item.st.exp

ParsedOneStatement ==
    /\ presult.kind = "Ok"
    /\ Len(presult.val.decl.blocks) = 1
    /\ presult.val.decl.blocks[1].b = (IF pinput.stmt = "Declare" THEN "Declaration" ELSE "Statement")

\* (((a op1 b) op2 c) ...) for the first n operators of ops.
RECURSIVE LeftTree(_, _)
LeftTree(ops, n) ==
    IF n = 0 THEN Var("a")
    ELSE BinOp(map_token_to_ast(ops[n]), LeftTree(ops, n - 1), Var(OperandNames[n + 1]))

\* a op1= (b op2= (... z)) from the i-th operator of ops on.
RECURSIVE RightAssignTree(_, _)
RightAssignTree(ops, i) ==
    IF i > Len(ops) THEN Var(OperandNames[i])
    ELSE IF ops[i] = "Assignment"
        THEN Assign(OperandNames[i], RightAssignTree(ops, i + 1))
        ELSE AssignOp(OperandNames[i], AssignmentOpOf(ops[i]), RightAssignTree(ops, i + 1))

\* C2: precedence follows the grammar levels || < && < | < ^ < & < equality <
\* relational < shift < additive < multiplicative: `a lo b hi c` parses to
\* BinOp(lo, a, BinOp(hi, b, c)) and `a hi b lo c` to BinOp(lo, BinOp(hi, a, b), c).
C2_Precedence ==
    (Parsed /\ pinput.shape = "chain" /\ Len(pinput.ops) = 2) =>
        LET op1 == pinput.ops[1]
            op2 == pinput.ops[2]
        IN  /\ GrammarLevel(op1) < GrammarLevel(op2) =>
                /\ ParsedOneStatement
                /\ ParsedExp = BinOp(map_token_to_ast(op1), Var("a"),
                                     BinOp(map_token_to_ast(op2), Var("b"), Var("c")))
            /\ GrammarLevel(op2) < GrammarLevel(op1) =>
                /\ ParsedOneStatement
                /\ ParsedExp = BinOp(map_token_to_ast(op2),
                                     BinOp(map_token_to_ast(op1), Var("a"), Var("b")), Var("c"))

\* C3: binary operators of one precedence level are left-associative: a chain
\* `a op1 b op2 c ...` of any length parses to (((a op1 b) op2 c) ...).
C3_LeftAssociative ==
    (Parsed /\ pinput.shape = "chain" /\ Len(pinput.ops) >= 2 /\ SameLevel(pinput.ops)) =>
        /\ ParsedOneStatement
        /\ ParsedExp = LeftTree(pinput.ops, Len(pinput.ops))

\* C3 witness: a parsed chain of three operators of one level, not all the same.
C3_Witness ==
    /\ Parsed /\ pinput.shape = "chain" /\ Len(pinput.ops) = 3 /\ SameLevel(pinput.ops)
    /\ pinput.ops[1] # pinput.ops[2] /\ pinput.ops[2] # pinput.ops[3]
    /\ presult.kind = "Ok"
    /\ ParsedExp.e = "BinOp" /\ ParsedExp.l.e = "BinOp" /\ ParsedExp.l.l.e = "BinOp"

\* C4: assignment is right-associative for = and the ten compound operators:
\* `a op1= b op2= c` parses with the second assignment as the right-hand side of
\* the first.
C4_AssignRightAssociative ==
    (Parsed /\ pinput.shape = "assign") =>
        /\ ParsedOneStatement
        /\ ParsedExp = RightAssignTree(pinput.ops, 1)

\* C4 witness: a parsed `a = b += c`, the compound assignment nested in the simple one.
C4_Witness ==
    /\ Parsed /\ pinput.shape = "assign"
    /\ pinput.ops = <<"Assignment", "AssignmentPlus">>
    /\ presult.kind = "Ok"
    /\ ParsedExp.e = "Assign" /\ ParsedExp.exp.e = "AssignOp"

\* C5: for a token list with a token-kind mismatch or a missing token, parse
\* returns a parse error to its caller: it neither panics nor returns a Program.
C5_ParseErrorReturned ==
    (ppc = "done" /\ pinput.defect.kind # "none") => presult.kind = "Err"

\* The ast::UnOp of a prefix operator token.
PrefixUnOp(t) ==
    IF t \in {"Increment", "Decrement"} THEN map_inc_dec_token_to_unop(t, FALSE)
    ELSE map_token_to_unop(t)

\* C25: a prefix operator (-, ~, !, ++, --) applies to the unary expression
\* after it only and binds tighter than every binary operator: `<un> a <bin> b`
\* parses to BinOp(bin, UnOp(un, a), b), for || as for the other operators.
C25_PrefixBindsTighter ==
    (Parsed /\ pinput.shape = "unary") =>
        /\ ParsedOneStatement
        /\ ParsedExp = BinOp(map_token_to_ast(pinput.ops[2]),
                             UnOp(PrefixUnOp(pinput.ops[1]), Var("a")), Var("b"))

(***************************************************************************)
(* TAC LOWERER  (src/src/tac.rs, over the AST of src/src/ast/ast.rs)       *)
(***************************************************************************)

\* ast::Exp variants that the parser above does not build.
CondExp(cond, exp1, exp2) == [e |-> "CondExp", cond |-> cond, exp1 |-> exp1, exp2 |-> exp2]
FuncCall(name, params) == [e |-> "FuncCall", name |-> name, params |-> params]
IncOrDec(name, op) == [e |-> "IncOrDec", name |-> name, op |-> op]

\* ast::Statement (exp of StExp, else_block, list, exp1 and exp3 are Options).
StReturn(exp) == [s |-> "Return", exp |-> exp]
StExp(exp) == [s |-> "Exp", exp |-> exp]
Conditional(cond_expr, if_block, else_block) ==
    [s |-> "Conditional", cond_expr |-> cond_expr, if_block |-> if_block, else_block |-> else_block]
Compound(list) == [s |-> "Compound", list |-> list]
For(exp1, exp2, exp3, statement) ==
    [s |-> "For", exp1 |-> exp1, exp2 |-> exp2, exp3 |-> exp3, statement |-> statement]
ForDecl(decl, exp2, exp3, statement) ==
    [s |-> "ForDecl", decl |-> decl, exp2 |-> exp2, exp3 |-> exp3, statement |-> statement]
While(exp, statement) == [s |-> "While", exp |-> exp, statement |-> statement]
Do(statement, exp) == [s |-> "Do", statement |-> statement, exp |-> exp]
Break == [s |-> "Break"]
Continue == [s |-> "Continue"]

\* ast::Declaration::Declare, ast::BlockItem, ast::FuncDecl (blocks is an Option).
Declare(name, exp) == [name |-> name, exp |-> exp]
BlockDeclaration(decl) == [b |-> "Declaration", decl |-> decl]
BlockStatement(st) == [b |-> "Statement", st |-> st]
FuncDecl(name, parameters, blocks) == [name |-> name, parameters |-> parameters, blocks |-> blocks]

\* HashMap: a function on the set of its keys.
EmptyMap == [k \in {} |-> k]
MapPut(m, key, v) == [k \in DOMAIN m \cup {key} |-> IF k = key THEN v ELSE m[k]]

\* ID::new
ID_new(id, tp) == [id |-> id, tp |-> tp]

\* InstructionLine(Instruction, Option<ID>)
InstructionLine(inst, id) == [inst |-> inst, id |-> id]

\* Instruction: Assignment, Alloc, Op(Op::Op), Op(Op::Unary), Call and the
\* ControlOp variants Label, Branch(GOTO), Branch(IfGOTO), Return.
Assignment(dst, src) == [i |-> "Assignment", dst |-> dst, src |-> src]
Alloc(val) == [i |-> "Alloc", val |-> val]
OpOp(op, a, b) == [i |-> "Op", op |-> op, a |-> a, b |-> b]
OpUnary(op, a) == [i |-> "Unary", op |-> op, a |-> a]
Call_new(name, params, params_size) ==
    [i |-> "Call", name |-> name, params |-> params, pop_size |-> params_size, tp |-> "LCall"]
Label(l) == [i |-> "Label", l |-> l]
GOTO(l) == [i |-> "GOTO", l |-> l]
IfGOTO(id, l) == [i |-> "IfGOTO", id |-> id, l |-> l]
Return(id) == [i |-> "Return", id |-> id]

\* FuncDef
FuncDef(name, frame_size, fvars, instructions) ==
    [name |-> name, frame_size |-> frame_size, vars |-> fvars, instructions |-> instructions]

\* `*val as i32`: the cast changes no value of the i32 range, and every integer
\* the model checker represents lies in it.
ToI32(val) == val

\* TypeOp::from: Some(<<class, operator>>); None stands for unimplemented!().
TypeOp_from(op) ==
    CASE op = "Addition" -> Some(<<"Arithmetic", "Add">>)
      [] op = "Sub" -> Some(<<"Arithmetic", "Sub">>)
      [] op = "Multiplication" -> Some(<<"Arithmetic", "Mul">>)
      [] op = "Division" -> Some(<<"Arithmetic", "Div">>)
      [] op = "Modulo" -> Some(<<"Arithmetic", "Mod">>)
      [] op = "BitwiseAnd" -> Some(<<"Bit", "And">>)
      [] op = "BitwiseOr" -> Some(<<"Bit", "Or">>)
      [] op = "BitwiseXor" -> Some(<<"Bit", "Xor">>)
      [] op = "BitwiseLeftShift" -> Some(<<"Bit", "LShift">>)
      [] op = "BitwiseRightShift" -> Some(<<"Bit", "RShift">>)
      [] op = "Equal" -> Some(<<"Equality", "Equal">>)
      [] op = "NotEqual" -> Some(<<"Equality", "NotEq">>)
      [] op = "GreaterThan" -> Some(<<"Relational", "Greater">>)
      [] op = "GreaterThanOrEqual" -> Some(<<"Relational", "GreaterOrEq">>)
      [] op = "LessThan" -> Some(<<"Relational", "Less">>)
      [] op = "LessThanOrEqual" -> Some(<<"Relational", "LessOrEq">>)
      [] op \in {"And", "Or"} -> None

\* UnOp::from: None stands for unreachable!().
UnOp_from(op) ==
    CASE op = "Negation" -> Some("Neg")
      [] op = "BitwiseComplement" -> Some("BitComplement")
      [] op = "LogicalNegation" -> Some("LogicNeg")
      [] OTHER -> None

\* ---- Context ----

\* Context::new
Context_new == [symbols |-> EmptyMap, symbols_counter |-> 0, scopes |-> <<{}>>, loop_ctx |-> <<>>]

\* Context::push_scope
push_scope(ctx) == [ctx EXCEPT !.scopes = Append(@, {})]

\* Context::pop_scope (Vec::pop leaves an empty vector empty)
pop_scope(ctx) == [ctx EXCEPT !.scopes = Take(@, Len(@) - 1)]

\* Context::add_symbol_to_scope: the context with name in the last scope, and
\* whether the name was new there (HashSet::insert).  The caller holds a
\* non-empty scope stack.
add_symbol_to_scope(ctx, name) ==
    [ctx |-> [ctx EXCEPT !.scopes[Len(ctx.scopes)] = @ \cup {name}],
     inserted |-> name \notin ctx.scopes[Len(ctx.scopes)]]

\* Context::add_symbol: id is None where the code runs into unimplemented!().
add_symbol(ctx, name) ==
    LET r == add_symbol_to_scope(ctx, name)
        id == ID_new(ctx.symbols_counter, "Var")
    IN  IF ~r.inserted THEN [ctx |-> r.ctx, id |-> None]
        ELSE [ctx |-> [r.ctx EXCEPT !.symbols = MapPut(@, name, id)], id |-> Some(id)]

\* Context::scope_symbol
scope_symbol(ctx, name) ==
    LET last_scope == ctx.scopes[Len(ctx.scopes)]
    IN  IF name \in last_scope
            THEN IF name \in DOMAIN ctx.symbols THEN Some(ctx.symbols[name]) ELSE None
            ELSE None

\* LoopContext::new
LoopContext_new(begin, end) == [begin |-> begin, end |-> end]

\* Context::push_loop, Context::pop_loop
\* A pop_loop that leaves the loop context of the finished loop on the stack.
pop_loop_kept(ctx) == ctx

push_loop(ctx, lc) == [ctx EXCEPT !.loop_ctx = Append(@, lc)]
pop_loop(ctx) == [ctx EXCEPT !.loop_ctx = Take(@, Len(@) - 1)]

\* Context::loop_end, Context::loop_start: None where last().unwrap() panics.
loop_end(ctx) == IF ctx.loop_ctx = <<>> THEN None ELSE Some(ctx.loop_ctx[Len(ctx.loop_ctx)].end)
loop_start(ctx) == IF ctx.loop_ctx = <<>> THEN None ELSE Some(ctx.loop_ctx[Len(ctx.loop_ctx)].begin)

\* ---- Generator ----
\* A panic of the lowering thread is the flag panicked; every operation of a
\* panicked generator is skipped, so the state in which the panic happened
\* stays visible.  counters[1], counters[2], counters[3] are the code's
\* counters[0] (temporaries), counters[1] (variables), counters[2] (labels).

\* Generator::new
Generator_new ==
    [instructions |-> <<>>, context |-> Context_new, counters |-> <<0, 0, 0>>,
     allocated |-> 0, panicked |-> FALSE]

\* The thread panics.
panic(g) == [g EXCEPT !.panicked = TRUE]

\* Generator::start_scope, Generator::end_scope
start_scope(g) == IF g.panicked THEN g ELSE [g EXCEPT !.context = push_scope(@)]
end_scope(g) == IF g.panicked THEN g ELSE [g EXCEPT !.context = pop_scope(@)]

\* context.push_loop(LoopContext::new(begin, end)) and context.pop_loop() as the
\* generator calls them.
begin_loop(g, begin, end) ==
    IF g.panicked THEN g ELSE [g EXCEPT !.context = push_loop(@, LoopContext_new(begin, end))]
end_loop(g) == IF g.panicked THEN g ELSE [g EXCEPT !.context = pop_loop(@)]

\* Generator::recognize_var: scope_symbol(name).unwrap().clone()
recognize_var(g, name) ==
    IF g.panicked THEN [g |-> g, id |-> None]
    ELSE LET r == scope_symbol(g.context, name)
         IN  IF r = None THEN [g |-> panic(g), id |-> None] ELSE [g |-> g, id |-> r[1]]

\* Generator::allocated_memory
allocated_memory(g) == g.allocated * 4

\* A variant of flush that hands over the instructions and keeps the count of
\* allocations.
flush_keeping_allocated(g) == [g EXCEPT !.instructions = <<>>]

\* Generator::flush: the generator left behind (the instructions are returned
\* to the caller).
flush(g) == [g EXCEPT !.allocated = 0, !.instructions = <<>>]

\* An alloc_tmp that hands out the temporary number without advancing it.
alloc_tmp_stuck(g) ==
    [g |-> [g EXCEPT !.allocated = @ + 1], id |-> ID_new(g.counters[1], "Temporary")]

\* Generator::alloc_tmp with Generator::inc_tmp
alloc_tmp(g) ==
    [g |-> [g EXCEPT !.allocated = @ + 1, !.counters[1] = @ + 1],
     id |-> ID_new(g.counters[1], "Temporary")]

\* Generator::alloc_var
alloc_var(g, name) ==
    IF g.panicked THEN [g |-> g, id |-> None]
    ELSE LET r == add_symbol(g.context, name)
             g1 == [g EXCEPT !.allocated = @ + 1, !.context = r.ctx]
         IN  IF r.id = None THEN [g |-> panic(g1), id |-> None] ELSE [g |-> g1, id |-> r.id[1]]

\* A variant of uniq_label that hands out the counter without advancing it.
uniq_label_stuck(g) == [g |-> g, l |-> g.counters[3]]

\* Generator::uniq_label
uniq_label(g) ==
    IF g.panicked THEN [g |-> g, l |-> 0]
    ELSE [g |-> [g EXCEPT !.counters[3] = @ + 1], l |-> g.counters[3]]

\* Generator::emit: the line's defining ID is a fresh temporary for Op, Alloc and
\* Call, the assigned ID for Assignment and None for the control operations.
emit(g, inst) ==
    IF g.panicked THEN [g |-> g, id |-> None]
    ELSE LET fresh == inst.i \in {"Op", "Unary", "Alloc", "Call"}
             tmp == alloc_tmp(g)
             id == IF fresh THEN Some(tmp.id)
                   ELSE IF inst.i = "Assignment" THEN Some(inst.dst) ELSE None
             g1 == IF fresh THEN tmp.g ELSE g
         IN  [g |-> [g1 EXCEPT !.instructions = Append(@, InstructionLine(inst, id))], id |-> id]

\* self.emit(..).unwrap() in emit_expr: the ID of the emitted line.
emitted(r) == [g |-> r.g, id |-> IF r.id = None THEN None ELSE r.id[1]]

\* emit_expr, emit_decl, emit_block and emit_statement call each other through
\* call_emit, which names the function to call; it returns the generator and,
\* for emit_expr, the ID of the value.
RECURSIVE call_emit(_, _, _)

\* emit_expr, FuncCall: params.iter().map(|exp| self.emit_expr(exp)).collect()
RECURSIVE emit_params(_, _, _)
emit_params(g, params, ids) ==
    IF params = <<>> THEN [g |-> g, ids |-> ids]
    ELSE LET r == call_emit("emit_expr", g, Head(params))
         IN  emit_params(r.g, Tail(params), Append(ids, r.id))

\* Generator::emit_expr
emit_expr(g, exp) ==
    IF g.panicked THEN [g |-> g, id |-> None]
    ELSE CASE exp.e = "Var" -> recognize_var(g, exp.name)
           [] exp.e = "Const" -> emitted(emit(g, Alloc(ToI32(exp.val))))
           [] exp.e = "FuncCall" ->
                LET ps == emit_params(g, exp.params, <<>>)
                IN  emitted(emit(ps.g, Call_new(exp.name, ps.ids, Len(exp.params) * 4)))
           [] exp.e = "UnOp" ->
                LET a == call_emit("emit_expr", g, exp.exp)
                    op == UnOp_from(exp.op)
                IN  IF a.g.panicked THEN a
                    ELSE IF op = None THEN [g |-> panic(a.g), id |-> None]
                    ELSE emitted(emit(a.g, OpUnary(op[1], a.id)))
           [] exp.e = "BinOp" ->
                LET id1 == call_emit("emit_expr", g, exp.l)
                    id2 == call_emit("emit_expr", id1.g, exp.r)
                    op == TypeOp_from(exp.op)
                IN  IF id2.g.panicked THEN id2
                    ELSE IF op = None THEN [g |-> panic(id2.g), id |-> None]
                    ELSE emitted(emit(id2.g, OpOp(op[1], id1.id, id2.id)))
           [] exp.e = "Assign" ->
                LET var_id == recognize_var(g, exp.name)
                    exp_id == call_emit("emit_expr", var_id.g, exp.exp)
                IN  emitted(emit(exp_id.g, Assignment(var_id.id, exp_id.id)))
           [] exp.e = "CondExp" ->
                LET end_label == uniq_label(g)
                    exp2_label == uniq_label(end_label.g)
                    tmp_id == alloc_tmp(exp2_label.g)
                    cond_id == call_emit("emit_expr", tmp_id.g, exp.cond)
                    g1 == emit(cond_id.g, IfGOTO(cond_id.id, exp2_label.l)).g
                    exp1_id == call_emit("emit_expr", g1, exp.exp1)
                    g2 == emit(exp1_id.g, Assignment(tmp_id.id, exp1_id.id)).g
                    g3 == emit(g2, GOTO(end_label.l)).g
                    g4 == emit(g3, Label(exp2_label.l)).g
                    exp2_id == call_emit("emit_expr", g4, exp.exp2)
                    g5 == emit(exp2_id.g, Assignment(tmp_id.id, exp2_id.id)).g
                    g6 == emit(g5, Label(end_label.l)).g
                IN  [g |-> g6, id |-> IF g6.panicked THEN None ELSE tmp_id.id]
           [] OTHER -> [g |-> panic(g), id |-> None]           \* unimplemented!()

\* Generator::emit_decl
emit_decl(g, decl) ==
    LET var_id == alloc_var(g, decl.name)
    IN  IF decl.exp = None THEN var_id.g
        ELSE LET exp_id == call_emit("emit_expr", var_id.g, decl.exp[1])
             IN  emit(exp_id.g, Assignment(var_id.id, exp_id.id)).g

\* Generator::emit_block
emit_block(g, block) ==
    IF block.b = "Declaration" THEN call_emit("emit_decl", g, block.decl).g
    ELSE call_emit("emit_statement", g, block.st).g

\* `for block in list { self.emit_block(block) }`
RECURSIVE emit_blocks(_, _)
emit_blocks(g, list) ==
    IF list = <<>> THEN g
    ELSE emit_blocks(call_emit("emit_block", g, Head(list)).g, Tail(list))

\* `if let Some(exp) = exp { self.emit_expr(exp); }`
emit_opt_expr(g, exp) == IF exp = None THEN g ELSE call_emit("emit_expr", g, exp[1]).g

\* emit_statement, ForDecl: the scope opened for the declaration of the header.
emit_for_decl(g, decl) == end_scope(call_emit("emit_decl", start_scope(g), decl).g)

\* emit_statement, Break and Continue: GOTO of the label the loop context gives;
\* without a loop context loop_end/loop_start panic.
emit_loop_goto(g, target) ==
    IF g.panicked THEN g
    ELSE IF target = None THEN panic(g)
    ELSE emit(g, GOTO(target[1])).g

\* Generator::emit_statement
emit_statement(g, st) ==
    IF g.panicked THEN g
    ELSE CASE st.s = "Exp" -> emit_opt_expr(g, st.exp)
           [] st.s = "Return" ->
                LET id == call_emit("emit_expr", g, st.exp)
                IN  emit(id.g, Return(id.id)).g
           [] st.s = "Conditional" ->
                LET cond_id == call_emit("emit_expr", g, st.cond_expr)
                    end_label == uniq_label(cond_id.g)
                    g1 == emit(end_label.g, IfGOTO(cond_id.id, end_label.l)).g
                    g2 == call_emit("emit_statement", g1, st.if_block).g
                IN  IF st.else_block = None THEN emit(g2, Label(end_label.l)).g
                    ELSE LET else_label == end_label.l
                             end_label2 == uniq_label(g2)
                             g3 == emit(end_label2.g, GOTO(end_label2.l)).g
                             g4 == emit(g3, Label(else_label)).g
                             g5 == call_emit("emit_statement", g4, st.else_block[1]).g
                         IN  emit(g5, Label(end_label2.l)).g
           [] st.s = "Compound" ->
                LET g1 == start_scope(g)
                    g2 == IF st.list = None THEN g1 ELSE emit_blocks(g1, st.list[1])
                IN  end_scope(g2)
           [] st.s = "While" ->
                LET begin_label == uniq_label(g)
                    end_label == uniq_label(begin_label.g)
                    g1 == begin_loop(end_label.g, begin_label.l, end_label.l)
                    g2 == emit(g1, Label(begin_label.l)).g
                    cond_id == call_emit("emit_expr", g2, st.exp)
                    g3 == emit(cond_id.g, IfGOTO(cond_id.id, end_label.l)).g
                    g4 == end_scope(call_emit("emit_statement", start_scope(g3), st.statement).g)
                    g5 == emit(g4, GOTO(begin_label.l)).g
                    g6 == emit(g5, Label(end_label.l)).g
                IN  end_loop(g6)
           [] st.s = "Do" ->
                LET begin_label == uniq_label(g)
                    end_label == uniq_label(begin_label.g)
                    g1 == begin_loop(end_label.g, begin_label.l, end_label.l)
                    g2 == emit(g1, Label(begin_label.l)).g
                    g3 == end_scope(call_emit("emit_statement", start_scope(g2), st.statement).g)
                    cond_id == call_emit("emit_expr", g3, st.exp)
                    g4 == emit(cond_id.g, IfGOTO(cond_id.id, end_label.l)).g
                    g5 == emit(g4, GOTO(begin_label.l)).g
                    g6 == emit(g5, Label(end_label.l)).g
                IN  end_loop(g6)
           [] st.s = "ForDecl" ->
                LET begin_label == uniq_label(g)
                    end_label == uniq_label(begin_label.g)
                    g1 == begin_loop(end_label.g, begin_label.l, end_label.l)
                    g2 == emit_for_decl(g1, st.decl)
                    g3 == emit(g2, Label(begin_label.l)).g
                    cond_id == call_emit("emit_expr", g3, st.exp2)
                    g4 == emit(cond_id.g, IfGOTO(cond_id.id, end_label.l)).g
                    g5 == end_scope(call_emit("emit_statement", start_scope(g4), st.statement).g)
                    g6 == emit_opt_expr(g5, st.exp3)
                    g7 == emit(g6, GOTO(begin_label.l)).g
                    g8 == emit(g7, Label(end_label.l)).g
                IN  end_loop(g8)
           [] st.s = "For" ->
                LET begin_label == uniq_label(g)
                    end_label == uniq_label(begin_label.g)
                    g1 == begin_loop(end_label.g, begin_label.l, end_label.l)
                    g2 == emit_opt_expr(g1, st.exp1)
                    g3 == emit(g2, Label(begin_label.l)).g
                    cond_id == call_emit("emit_expr", g3, st.exp2)
                    g4 == emit(cond_id.g, IfGOTO(cond_id.id, end_label.l)).g
                    g5 == end_scope(call_emit("emit_statement", start_scope(g4), st.statement).g)
                    g6 == emit_opt_expr(g5, st.exp3)
                    g7 == emit(g6, GOTO(begin_label.l)).g
                    g8 == emit(g7, Label(end_label.l)).g
                IN  end_loop(g8)
           [] st.s = "Break" -> emit_loop_goto(g, loop_end(g.context))
           [] st.s = "Continue" -> emit_loop_goto(g, loop_start(g.context))

\* The function named fn of the generator, applied to node.
call_emit(fn, g, node) ==
    CASE fn = "emit_expr" -> emit_expr(g, node)
      [] fn = "emit_decl" -> [g |-> emit_decl(g, node), id |-> None]
      [] fn = "emit_block" -> [g |-> emit_block(g, node), id |-> None]
      [] fn = "emit_statement" -> [g |-> emit_statement(g, node), id |-> None]

\* Generator::parse, `for p in func.parameters.iter() { self.alloc_var(&p); }`
RECURSIVE alloc_params(_, _)
alloc_params(g, parameters) ==
    IF parameters = <<>> THEN g
    ELSE alloc_params(alloc_var(g, Head(parameters)).g, Tail(parameters))

\* Generator::parse, lines 154-165: the generator after the parameters and the
\* block items of a function with a body.
lower_body(g, func) == emit_blocks(alloc_params(g, func.parameters), func.blocks[1])

\* Generator::parse, lines 167-172: symbols collected into a map from id.id to
\* the name.  Names with the same id.id collide and the one that HashMap's
\* iteration visits last stays: every such choice is a possible map.
collect_vars(symbols) ==
    LET ids == {symbols[n].id : n \in DOMAIN symbols}
    IN  {m \in [ids -> DOMAIN symbols] : \A k \in ids : symbols[m[k]].id = k}

\* A variant of Generator::parse that allocates the parameters of a function
\* before it looks for the body.
Generator_parse_eager(g, func, fvars) ==
    LET g0 == alloc_params(g, func.parameters)
    IN  IF func.blocks = None THEN [g |-> g0, def |-> None]
        ELSE LET g1 == emit_blocks(g0, func.blocks[1])
             IN  IF g1.panicked THEN [g |-> g1, def |-> None]
                 ELSE [g |-> flush([g1 EXCEPT !.context.symbols = EmptyMap]),
                       def |-> Some(FuncDef(func.name, allocated_memory(g1), fvars,
                                            g1.instructions))]

\* Generator::parse: the generator left behind and Some(FuncDef) or None; fvars
\* is the map that collecting the symbols gave.  A panic leaves the generator
\* in the state of the panic.
Generator_parse(g, func, fvars) ==
    IF func.blocks = None THEN [g |-> g, def |-> None]
    ELSE LET g1 == lower_body(g, func)
         IN  IF g1.panicked THEN [g |-> g1, def |-> None]
             ELSE [g |-> flush([g1 EXCEPT !.context.symbols = EmptyMap]),
                   def |-> Some(FuncDef(func.name, allocated_memory(g1), fvars, g1.instructions))]

(***************************************************************************)
(* Lowerer inputs: programs built around a declaration and a reference to  *)
(* it, in nested scopes of every kind, and a list of programs that use the *)
(* other statements and expressions.                                       *)
(***************************************************************************)

\* Deepest nesting of statements around a reference or an inner declaration.
MaxNest == 2

WrapperKinds == {"Compound", "While", "Do", "For", "ForDecl"}

\* st as the body of a statement of the kind: { st }, while (1) st,
\* do st while (1), for (; 1; ) st, for (int i = 0; 1; ) st, if (1) st,
\* if (1) st else st.
Wrap(kind, st) ==
    CASE kind = "Compound" -> Compound(Some(<<BlockStatement(st)>>))
      [] kind = "While" -> While(Const(1), st)
      [] kind = "Do" -> Do(st, Const(1))
      [] kind = "For" -> For(None, Const(1), None, st)
      [] kind = "ForDecl" -> ForDecl(Declare("i", Some(Const(0))), Const(1), None, st)
      [] kind = "If" -> Conditional(Const(1), st, None)
      [] kind = "IfElse" -> Conditional(Const(1), st, Some(st))

RECURSIVE WrapAll(_, _, _)
WrapAll(wrappers, i, st) ==
    IF i > Len(wrappers) THEN st ELSE Wrap(wrappers[i], WrapAll(wrappers, i + 1, st))

Main(parameters, blocks) == <<FuncDecl("main", parameters, Some(blocks))>>

\* int main(a) { W( return a; ) }   or   int main() { int a = 1; W( return a; ) }
NestedRefInputs ==
    {[fam |-> "nested_ref", wrappers |-> w, decl |-> d] :
        w \in SeqsUpTo(WrapperKinds, MaxNest), d \in {"local", "param"}}

NestedRefProgram(in) ==
    Main(IF in.decl = "param" THEN <<"a">> ELSE <<>>,
         (IF in.decl = "local" THEN <<BlockDeclaration(Declare("a", Some(Const(1))))>> ELSE <<>>)
            \o <<BlockStatement(WrapAll(in.wrappers, 1, StReturn(Var("a"))))>>)

\* int main() { int a = 1; W( { int <inner> = 2; } ) return <after>; }
ShadowInputs ==
    {[fam |-> "shadow", wrappers |-> w, inner |-> n[1], after |-> n[2]] :
        w \in SeqsUpTo(WrapperKinds, MaxNest - 1),
        n \in {<<"a", "a">>, <<"b", "a">>, <<"b", "b">>}}

ShadowProgram(in) ==
    Main(<<>>,
         << BlockDeclaration(Declare("a", Some(Const(1)))),
            BlockStatement(WrapAll(in.wrappers, 1,
                Compound(Some(<<BlockDeclaration(Declare(in.inner, Some(Const(2))))>>)))),
            BlockStatement(StReturn(Var(in.after))) >>)

\* int main() { int s = 0; for (int i = 1; <cond>; <step>) <body> return <after>; }
\* with i in the places named by refs.
ForDeclInputs ==
    {[fam |-> "fordecl", cond |-> c, step |-> s, body |-> b, after |-> a] :
        c \in {"1", "i<=10"}, s \in {"none", "i=i+1"},
        b \in {"empty", "i", "s=s+i"}, a \in {"s", "i"}}

ForDeclProgram(in) ==
    LET cond == IF in.cond = "1" THEN Const(1)
                ELSE BinOp("LessThanOrEqual", Var("i"), Const(10))
        step == IF in.step = "none" THEN None
                ELSE Some(Assign("i", BinOp("Addition", Var("i"), Const(1))))
        body == CASE in.body = "empty" -> StExp(None)
                  [] in.body = "i" -> StExp(Some(Var("i")))
                  [] in.body = "s=s+i" ->
                        StExp(Some(Assign("s", BinOp("Addition", Var("s"), Var("i")))))
    IN  Main(<<>>,
             << BlockDeclaration(Declare("s", Some(Const(0)))),
                BlockStatement(ForDecl(Declare("i", Some(Const(1))), cond, step, body)),
                BlockStatement(StReturn(Var(in.after))) >>)

\* Programs that use the statements and expressions the families above do not.
MiscPrograms ==
    << \* int main() { int a = 1; if (a) return 1; else return 2; }
       Main(<<>>, << BlockDeclaration(Declare("a", Some(Const(1)))),
                     BlockStatement(Conditional(Var("a"), StReturn(Const(1)),
                                                Some(StReturn(Const(2))))) >>),
       \* int main() { if (1) return 1; return 2; }
       Main(<<>>, << BlockStatement(Conditional(Const(1), StReturn(Const(1)), None)),
                     BlockStatement(StReturn(Const(2))) >>),
       \* int main() { return 1 ? 2 : 3; }
       Main(<<>>, << BlockStatement(StReturn(CondExp(Const(1), Const(2), Const(3)))) >>),
       \* int f(); int main() { return f(1, 2); }
       << FuncDecl("f", <<>>, None),
          FuncDecl("main", <<>>, Some(<< BlockStatement(StReturn(
                FuncCall("f", <<Const(1), Const(2)>>))) >>)) >>,
       \* int main() { while (1) { break; } do continue; while (0); return 0; }
       Main(<<>>, << BlockStatement(While(Const(1), Compound(Some(<<BlockStatement(Break)>>)))),
                     BlockStatement(Do(Continue, Const(0))),
                     BlockStatement(StReturn(Const(0))) >>),
       \* int main() { for (; 1; 2) continue; return -1 + 2 * 3; }
       Main(<<>>, << BlockStatement(For(None, Const(1), Some(Const(2)), Continue)),
                     BlockStatement(StReturn(BinOp("Addition", UnOp("Negation", Const(1)),
                            BinOp("Multiplication", Const(2), Const(3))))) >>),
       \* int main() { return 1 && 0; }
       Main(<<>>, << BlockStatement(StReturn(BinOp("And", Const(1), Const(0)))) >>),
       \* int main() { int a = 1; a += 2; return a; }
       Main(<<>>, << BlockDeclaration(Declare("a", Some(Const(1)))),
                     BlockStatement(StExp(Some(AssignOp("a", "Plus", Const(2))))),
                     BlockStatement(StReturn(Var("a"))) >>),
       \* int main() { int a = 1; a++; return a; }
       Main(<<>>, << BlockDeclaration(Declare("a", Some(Const(1)))),
                     BlockStatement(StExp(Some(IncOrDec("a", "IncPostfix")))),
                     BlockStatement(StReturn(Var("a"))) >>),
       \* int f() { int x = 1; return x; } int main() { int x = 2; return x; }
       << FuncDecl("f", <<>>, Some(<< BlockDeclaration(Declare("x", Some(Const(1)))),
                                      BlockStatement(StReturn(Var("x"))) >>)),
          FuncDecl("main", <<>>, Some(<< BlockDeclaration(Declare("x", Some(Const(2)))),
                                         BlockStatement(StReturn(Var("x"))) >>)) >>,
       \* int f() { return 1; } int main() { return 1 ? 2 : 3; }
       << FuncDecl("f", <<>>, Some(<< BlockStatement(StReturn(Const(1))) >>)),
          FuncDecl("main", <<>>, Some(<< BlockStatement(StReturn(
                CondExp(Const(1), Const(2), Const(3)))) >>)) >>,
       \* int main() { break; }
       Main(<<>>, << BlockStatement(Break) >>),
       \* int main() { return x; }
       Main(<<>>, << BlockStatement(StReturn(Var("x"))) >>),
       \* int main() { int x; int x; return x; }
       Main(<<>>, << BlockDeclaration(Declare("x", None)),
                     BlockDeclaration(Declare("x", None)),
                     BlockStatement(StReturn(Var("x"))) >>),
       \* int main() { int x; int y; return y; }
       Main(<<>>, << BlockDeclaration(Declare("x", None)),
                     BlockDeclaration(Declare("y", None)),
                     BlockStatement(StReturn(Var("y"))) >>)
    >>

\* int main() { for (<init>; 1; <step>) <body> return 0; } with a continue in
\* the body; <init> is empty or `int i = 0`, <step> is empty or the constant 2.
ContinueInputs ==
    {[fam |-> "continue", kind |-> k, step |-> s, body |-> b] :
        k \in {"For", "ForDecl"}, s \in {"none", "2"}, b \in {"continue", "block", "if"}}

ContinueProgram(in) ==
    LET step == IF in.step = "none" THEN None ELSE Some(Const(2))
        body == CASE in.body = "continue" -> Continue
                  [] in.body = "block" -> Compound(Some(<<BlockStatement(Continue)>>))
                  [] in.body = "if" -> Conditional(Const(3), Continue, None)
        loop == IF in.kind = "For" THEN For(None, Const(1), step, body)
                ELSE ForDecl(Declare("i", Some(Const(0))), Const(1), step, body)
    IN  Main(<<>>, << BlockStatement(loop), BlockStatement(StReturn(Const(0))) >>)

\* A logical operator with the left operand 0 or 1 and the right operand 5:
\* int main() { return <e1> <op> 5; }
\* int main() { if (<e1> <op> 5) return 1; return 0; }
\* int main() { int a = <e1> <op> 5; return a; }
LogicInputs ==
    {[fam |-> "logic", op |-> o, e1 |-> v, place |-> p] :
        o \in {"And", "Or"}, v \in {0, 1}, p \in {"return", "cond", "decl"}}

LogicProgram(in) ==
    LET exp == BinOp(in.op, Const(in.e1), Const(5))
    IN  CASE in.place = "return" -> Main(<<>>, << BlockStatement(StReturn(exp)) >>)
          [] in.place = "cond" ->
                Main(<<>>, << BlockStatement(Conditional(exp, StReturn(Const(1)), None)),
                              BlockStatement(StReturn(Const(0))) >>)
          [] in.place = "decl" ->
                Main(<<>>, << BlockDeclaration(Declare("a", Some(exp))),
                              BlockStatement(StReturn(Var("a"))) >>)

\* int main() { int v = 1; v <op>= 2; return v; }  and
\* int main() { int v = 1; return v <op>= 2; }
CompoundInputs ==
    {[fam |-> "compound", op |-> AssignmentOpOf(t), place |-> p] :
        t \in CompoundAssignTokens, p \in {"statement", "return"}}

\* The program of a compound input around the assignment expression exp.
CompoundAround(in, exp) ==
    Main(<<>>, <<BlockDeclaration(Declare("v", Some(Const(1))))>> \o
               (IF in.place = "statement"
                    THEN << BlockStatement(StExp(Some(exp))), BlockStatement(StReturn(Var("v"))) >>
                    ELSE << BlockStatement(StReturn(exp)) >>))

CompoundProgram(in) == CompoundAround(in, AssignOp("v", in.op, Const(2)))

\* A second declaration of x, in the scope of the first or in an inner one:
\*   same       int main() { int x; int x; return 0; }
\*   same_init  int main() { int x = 1; int x = 2; return 0; }
\*   param      int main(x) { int x; return 0; }
\*   block      int main() { { int x; int x; } return 0; }
\*   inner      int main() { int x = 1; { int x = 2; } return 0; }
\*   inner2     int main() { int x; { { int x; } } return 0; }
RedeclPlaces == {"same", "same_init", "param", "block", "inner", "inner2"}
RedeclInputs == {[fam |-> "redecl", place |-> p] : p \in RedeclPlaces}

RedeclProgram(in) ==
    LET x == BlockDeclaration(Declare("x", None))
        x1 == BlockDeclaration(Declare("x", Some(Const(1))))
        x2 == BlockDeclaration(Declare("x", Some(Const(2))))
        ret == BlockStatement(StReturn(Const(0)))
        block(items) == BlockStatement(Compound(Some(items)))
    IN  CASE in.place = "same" -> Main(<<>>, <<x, x, ret>>)
          [] in.place = "same_init" -> Main(<<>>, <<x1, x2, ret>>)
          [] in.place = "param" -> Main(<<"x">>, <<x, ret>>)
          [] in.place = "block" -> Main(<<>>, <<block(<<x, x>>), ret>>)
          [] in.place = "inner" -> Main(<<>>, <<x1, block(<<x2>>), ret>>)
          [] in.place = "inner2" -> Main(<<>>, <<x, block(<<block(<<x>>)>>), ret>>)

\* A reference without a declaration, and break / continue without a loop:
\*   var          int main() { return x; }
\*   assign       int main() { x = 1; return 0; }
\*   break        int main() { break; return 0; }
\*   continue     int main() { continue; return 0; }
\*   break_in_if  int main() { if (1) break; return 0; }
\*   break_after  int main() { while (0) { } break; return 0; }
UnresolvedKinds == {"var", "assign", "break", "continue", "break_in_if", "break_after"}
UnresolvedInputs == {[fam |-> "unresolved", kind |-> k] : k \in UnresolvedKinds}

UnresolvedProgram(in) ==
    LET ret == BlockStatement(StReturn(Const(0)))
    IN  CASE in.kind = "var" -> Main(<<>>, << BlockStatement(StReturn(Var("x"))) >>)
          [] in.kind = "assign" ->
                Main(<<>>, << BlockStatement(StExp(Some(Assign("x", Const(1))))), ret >>)
          [] in.kind = "break" -> Main(<<>>, << BlockStatement(Break), ret >>)
          [] in.kind = "continue" -> Main(<<>>, << BlockStatement(Continue), ret >>)
          [] in.kind = "break_in_if" ->
                Main(<<>>, << BlockStatement(Conditional(Const(1), Break, None)), ret >>)
          [] in.kind = "break_after" ->
                Main(<<>>, << BlockStatement(While(Const(0), Compound(None))),
                              BlockStatement(Break), ret >>)

\* Control flow over constants:
\* int main() { W( <leaf> ) if (1 ? 2 : 3) { } else { } return 0; }
\* with W any nesting of blocks, loops and conditionals.
FlowKinds == WrapperKinds \cup {"If", "IfElse"}
FlowLeaves == {"break", "continue", "ternary", "return", "empty"}
FlowInputs ==
    {[fam |-> "flow", wrappers |-> w, leaf |-> l] :
        w \in SeqsUpTo(FlowKinds, MaxNest), l \in FlowLeaves}

FlowProgram(in) ==
    LET leaf == CASE in.leaf = "break" -> Break
                  [] in.leaf = "continue" -> Continue
                  [] in.leaf = "ternary" -> StExp(Some(CondExp(Const(1), Const(2), Const(3))))
                  [] in.leaf = "return" -> StReturn(Const(4))
                  [] in.leaf = "empty" -> StExp(None)
    IN  Main(<<>>,
             << BlockStatement(WrapAll(in.wrappers, 1, leaf)),
                BlockStatement(Conditional(CondExp(Const(1), Const(2), Const(3)),
                                           Compound(None), Some(Compound(None)))),
                BlockStatement(StReturn(Const(0))) >>)

\* int main(<params>) { int x [= 1]; int y [= 2]; return <ret>; }
DeclParams == {<<>>, <<"p">>, <<"p", "q">>}
DeclInputs ==
    {in \in [fam : {"decls"}, params : DeclParams, xinit : BOOLEAN, yinit : BOOLEAN,
             ret : {"x", "y", "p", "q"}] :
        in.ret \in {"x", "y"} \cup {in.params[k] : k \in 1..Len(in.params)}}

DeclProgram(in) ==
    Main(in.params,
         << BlockDeclaration(Declare("x", IF in.xinit THEN Some(Const(1)) ELSE None)),
            BlockDeclaration(Declare("y", IF in.yinit THEN Some(Const(2)) ELSE None)),
            BlockStatement(StReturn(Var(in.ret))) >>)

\* Programs of several functions, each one of
\*   g      int g(a);
\*   f      int f(p) { int x = 1; return x; }
\*   h      int h() { int y; return 1 ? 2 : 3; }
\*   main   int main() { int z = g(1, 2); return -z + 1; }
MaxFuncs == 3
FuncTemplates == {"g", "f", "h", "main"}
MultiInputs == {[fam |-> "multi", fns |-> s] : s \in SeqsUpTo(FuncTemplates, MaxFuncs) \ {<<>>}}

FuncTemplate(t) ==
    CASE t = "g" -> FuncDecl("g", <<"a">>, None)
      [] t = "f" -> FuncDecl("f", <<"p">>,
                        Some(<< BlockDeclaration(Declare("x", Some(Const(1)))),
                                BlockStatement(StReturn(Var("x"))) >>))
      [] t = "h" -> FuncDecl("h", <<>>,
                        Some(<< BlockDeclaration(Declare("y", None)),
                                BlockStatement(StReturn(CondExp(Const(1), Const(2), Const(3)))) >>))
      [] t = "main" -> FuncDecl("main", <<>>,
                        Some(<< BlockDeclaration(Declare("z",
                                    Some(FuncCall("g", <<Const(1), Const(2)>>)))),
                                BlockStatement(StReturn(BinOp("Addition",
                                    UnOp("Negation", Var("z")), Const(1)))) >>))

MultiProgram(in) == [k \in 1..Len(in.fns) |-> FuncTemplate(in.fns[k])]

\* Programs of two functions, the second one after any other first one:
\*   a   int a(n) { int v = n ? 1 : 2; return v; }
\*   b   int b(n) { int v = 3; while (n) break; return v; }
\*   c   int c() { return 1 ? 2 : 3; }
\*   d   int d() { return v; }
PairTemplates == {"a", "b", "c", "d"}
PairInputs ==
    {in \in [fam : {"pair"}, fns : PairTemplates \X PairTemplates] : in.fns[1] # in.fns[2]}

PairTemplate(t) ==
    CASE t = "a" -> FuncDecl("a", <<"n">>,
                        Some(<< BlockDeclaration(Declare("v",
                                    Some(CondExp(Var("n"), Const(1), Const(2))))),
                                BlockStatement(StReturn(Var("v"))) >>))
      [] t = "b" -> FuncDecl("b", <<"n">>,
                        Some(<< BlockDeclaration(Declare("v", Some(Const(3)))),
                                BlockStatement(While(Var("n"), Break)),
                                BlockStatement(StReturn(Var("v"))) >>))
      [] t = "c" -> FuncDecl("c", <<>>,
                        Some(<< BlockStatement(StReturn(CondExp(Const(1), Const(2), Const(3)))) >>))
      [] t = "d" -> FuncDecl("d", <<>>, Some(<< BlockStatement(StReturn(Var("v"))) >>))

PairProgram(in) == [k \in 1..Len(in.fns) |-> PairTemplate(in.fns[k])]

\* A break or continue in the inner of two loops, or after the inner loop in
\* the body of the outer one:
\*   inner   int main() { <outer> { <inner> <leaf>; } return 0; }
\*   after   int main() { <outer> { <inner> ; <leaf>; } return 0; }
\* with <outer>, <inner> one of while (1), do .. while (1), for (; 1; ),
\* for (int i = 0; 1; ).
LoopKinds == {"While", "Do", "For", "ForDecl"}
TargetInputs ==
    [fam : {"target"}, outer : LoopKinds, inner : LoopKinds, leaf : {"break", "continue"},
     where : {"inner", "after"}]

TargetProgram(in) ==
    LET leaf == IF in.leaf = "break" THEN Break ELSE Continue
        inner == Wrap(in.inner, IF in.where = "inner" THEN leaf ELSE StExp(None))
        body == <<BlockStatement(inner)>> \o
                    (IF in.where = "after" THEN <<BlockStatement(leaf)>> ELSE <<>>)
    IN  Main(<<>>, << BlockStatement(Wrap(in.outer, Compound(Some(body)))),
                      BlockStatement(StReturn(Const(0))) >>)

\* int main() { return <c> ? <t> : <f>; }  and
\* int main() { int a = <c> ? <t> : <f>; return a; }
\* with <c> a constant, <t> one of 2 and (9 ? 4 : 5), <f> one of 3 and (0 ? 6 : 8).
TernaryInputs ==
    [fam : {"ternary"}, c : {0, 1, 7}, t : {"const", "nested"}, f : {"const", "nested"},
     place : {"return", "decl"}]

TernaryExp(in) ==
    CondExp(Const(in.c),
            IF in.t = "const" THEN Const(2) ELSE CondExp(Const(9), Const(4), Const(5)),
            IF in.f = "const" THEN Const(3) ELSE CondExp(Const(0), Const(6), Const(8)))

TernaryProgram(in) ==
    IF in.place = "return" THEN Main(<<>>, << BlockStatement(StReturn(TernaryExp(in))) >>)
    ELSE Main(<<>>, << BlockDeclaration(Declare("a", Some(TernaryExp(in)))),
                       BlockStatement(StReturn(Var("a"))) >>)

MiscInputs == {[fam |-> "misc", k |-> k] : k \in 1..Len(MiscPrograms)}

TacInputs ==
    NestedRefInputs \cup ShadowInputs \cup ForDeclInputs \cup MiscInputs
        \cup ContinueInputs \cup LogicInputs \cup CompoundInputs
        \cup RedeclInputs \cup UnresolvedInputs \cup FlowInputs
        \cup DeclInputs \cup MultiInputs \cup PairInputs
        \cup TargetInputs \cup TernaryInputs

ProgramOf(in) ==
    CASE in.fam = "nested_ref" -> NestedRefProgram(in)
      [] in.fam = "shadow" -> ShadowProgram(in)
      [] in.fam = "fordecl" -> ForDeclProgram(in)
      [] in.fam = "misc" -> MiscPrograms[in.k]
      [] in.fam = "continue" -> ContinueProgram(in)
      [] in.fam = "logic" -> LogicProgram(in)
      [] in.fam = "compound" -> CompoundProgram(in)
      [] in.fam = "redecl" -> RedeclProgram(in)
      [] in.fam = "unresolved" -> UnresolvedProgram(in)
      [] in.fam = "flow" -> FlowProgram(in)
      [] in.fam = "decls" -> DeclProgram(in)
      [] in.fam = "multi" -> MultiProgram(in)
      [] in.fam = "pair" -> PairProgram(in)
      [] in.fam = "target" -> TargetProgram(in)
      [] in.fam = "ternary" -> TernaryProgram(in)

InitTac ==
    /\ LexIdle /\ ParseIdle /\ BackendIdle /\ AsmIdle /\ RegIdle
    /\ tinput \in TacInputs
    /\ tprogram = ProgramOf(tinput)
    /\ tnext = 1
    /\ gen = Generator_new
    /\ funcs = <<>>
    /\ tpc = "run"

\* il, one iteration of the loop: gen.parse(fun) returns Some(func).
IlLowerFunction ==
    /\ tpc = "run"
    /\ tnext <= Len(tprogram)
    /\ tprogram[tnext].blocks # None
    /\ ~lower_body(gen, tprogram[tnext]).panicked
    /\ \E fvars \in collect_vars(lower_body(gen, tprogram[tnext]).context.symbols) :
        LET r == Generator_parse(gen, tprogram[tnext], fvars)
        IN  /\ gen' = r.g
            /\ funcs' = Append(funcs, r.def[1])
    /\ tnext' = tnext + 1
    /\ UNCHANGED <<tinput, tprogram, tpc>>
    /\ UNCHANGED notTacVars

\* il, one iteration of the loop: gen.parse(fun) returns None for a function
\* without a body.
IlSkipDeclaration ==
    /\ tpc = "run"
    /\ tnext <= Len(tprogram)
    /\ tprogram[tnext].blocks = None
    /\ gen' = Generator_parse(gen, tprogram[tnext], EmptyMap).g
    /\ tnext' = tnext + 1
    /\ UNCHANGED <<tinput, tprogram, funcs, tpc>>
    /\ UNCHANGED notTacVars

\* il, one iteration of the loop: gen.parse(fun) panics.
IlPanic ==
    /\ tpc = "run"
    /\ tnext <= Len(tprogram)
    /\ tprogram[tnext].blocks # None
    /\ lower_body(gen, tprogram[tnext]).panicked
    /\ gen' = Generator_parse(gen, tprogram[tnext], EmptyMap).g
    /\ tpc' = "panic"
    /\ UNCHANGED <<tinput, tprogram, tnext, funcs>>
    /\ UNCHANGED notTacVars

\* il returns funcs.
IlReturn ==
    /\ tpc = "run"
    /\ tnext > Len(tprogram)
    /\ tpc' = "done"
    /\ UNCHANGED <<tinput, tprogram, tnext, gen, funcs>>
    /\ UNCHANGED notTacVars

NextTac == IlLowerFunction \/ IlSkipDeclaration \/ IlPanic \/ IlReturn

SpecTac == InitTac /\ [][NextTac]_vars

(***************************************************************************)
(* Lowerer claims.                                                         *)
(***************************************************************************)

\* il has returned or panicked.
Lowered == tpc \in {"done", "panic"}

\* il returned the FuncDef of the one function of the program.
LoweredMain == tpc = "done" /\ Len(funcs) = 1

LinesOf(def, kind) == SelectSeq(def.instructions, LAMBDA line : line.inst.i = kind)

\* The IDs of type Var that the lines of def from the from-th on read or write.
RECURSIVE VarIdsFrom(_, _)
VarIdsFrom(def, from) ==
    IF from > Len(def.instructions) THEN {}
    ELSE LET inst == def.instructions[from].inst
             ids == CASE inst.i = "Assignment" -> {inst.dst, inst.src}
                      [] inst.i = "Op" -> {inst.a, inst.b}
                      [] inst.i = "Unary" -> {inst.a}
                      [] inst.i = "Call" -> {inst.params[k] : k \in 1..Len(inst.params)}
                      [] inst.i \in {"IfGOTO", "Return"} -> {inst.id}
                      [] OTHER -> {}
         IN  {id \in ids : id.tp = "Var"} \cup VarIdsFrom(def, from + 1)

\* C8: a reference in a nested scope (compound, while, do, for body, at any
\* depth) to a name declared in an enclosing scope, or to a parameter, resolves
\* to the ID of that declaration: lowering `int a = 1; W(return a;)` and
\* `int main(a) { W(return a;) }` gives a FuncDef whose Return reads the ID the
\* declaration of a got.
C8_NestedScopeResolves ==
    (Lowered /\ tinput.fam = "nested_ref" /\ Len(tinput.wrappers) >= 1) =>
        /\ LoweredMain
        /\ Len(LinesOf(funcs[1], "Return")) = 1
        /\ LinesOf(funcs[1], "Return")[1].inst.id =
              (IF tinput.decl = "param" THEN alloc_var(Generator_new, "a").id
               ELSE LinesOf(funcs[1], "Assignment")[1].inst.dst)

\* C9: popping a scope restores name resolution: after
\* `int a = 1; W({ int b = 2; }) return b;` the name b is not resolvable (no
\* FuncDef comes out), and after `int a = 1; W({ int a = 2; }) return a;` the name a
\* resolves to the ID of the outer declaration and not to the ID of the inner one.
C9_PopScopeRestores ==
    (Lowered /\ tinput.fam = "shadow") =>
        /\ tinput.after = "b" => funcs = <<>>
        /\ (tinput.inner = "a" /\ tinput.after = "a") =>
            /\ LoweredMain
            /\ LET assigns == LinesOf(funcs[1], "Assignment")
                   ret == LinesOf(funcs[1], "Return")[1].inst.id
               IN  /\ ret = assigns[1].inst.dst
                   /\ ret # assigns[2 + Cardinality({k \in 1..Len(tinput.wrappers) :
                                    tinput.wrappers[k] = "ForDecl"})].inst.dst

\* C10: in a for loop with a declaration the declared variable is resolvable in
\* the condition, the step and the body, resolving to the ID of the header
\* declaration, and is not resolvable after the loop: lowering
\* `int s = 0; for (int i = 1; <cond>; <step>) <body> return s;` succeeds with every
\* variable ID the loop reads or writes being the ID of i or of s, and lowering
\* the same with `return i;` gives no FuncDef.
C10_ForDeclScope ==
    (Lowered /\ tinput.fam = "fordecl") =>
        IF tinput.after = "i" THEN funcs = <<>>
        ELSE /\ LoweredMain
             /\ LET assigns == LinesOf(funcs[1], "Assignment")
                    s_id == assigns[1].inst.dst
                    i_id == assigns[2].inst.dst
                IN  /\ i_id.tp = "Var"
                    /\ VarIdsFrom(funcs[1], 5) \subseteq {i_id, s_id}
                    /\ (tinput.cond # "1" \/ tinput.step # "none" \/ tinput.body # "empty")
                          => i_id \in VarIdsFrom(funcs[1], 5)

\* The index of the Label line of the label l among lines, 0 if there is none.
LineOfLabel(lines, l) ==
    IF \E k \in 1..Len(lines) : lines[k].inst = Label(l)
        THEN CHOOSE k \in 1..Len(lines) : lines[k].inst = Label(l)
        ELSE 0

\* The instructions executed from the pc-th line on, every GOTO followed, up to
\* the next conditional branch or Return.
RECURSIVE PathToBranch(_, _, _)
PathToBranch(lines, pc, fuel) ==
    IF fuel = 0 \/ pc < 1 \/ pc > Len(lines) THEN <<>>
    ELSE LET inst == lines[pc].inst
         IN  CASE inst.i = "GOTO" -> PathToBranch(lines, LineOfLabel(lines, inst.l), fuel - 1)
               [] inst.i = "Label" -> PathToBranch(lines, pc + 1, fuel - 1)
               [] inst.i \in {"IfGOTO", "Return"} -> <<>>
               [] OTHER -> <<inst>> \o PathToBranch(lines, pc + 1, fuel - 1)

\* The index of the first GOTO line of lines.
FirstGoto(lines) ==
    CHOOSE k \in 1..Len(lines) :
        lines[k].inst.i = "GOTO" /\ \A j \in 1..(k - 1) : lines[j].inst.i # "GOTO"

\* C11: in both forms of for, a continue in the body jumps to the step
\* expression: on the path from the continue back to the test of the loop
\* condition the step is evaluated exactly once and then the condition; without
\* a step the continue jumps straight to the condition.  In
\* `for (<init>; 1; 2) <body with continue>` the path from the GOTO of the
\* continue to the conditional branch is the step's Alloc(2) followed by the
\* condition's Alloc(1).
C11_ContinueRunsStep ==
    (Lowered /\ tinput.fam = "continue") =>
        /\ LoweredMain
        /\ LET lines == funcs[1].instructions
           IN  PathToBranch(lines, FirstGoto(lines), Len(lines) + 1) =
                  (IF tinput.step = "none" THEN <<>> ELSE <<Alloc(2)>>) \o <<Alloc(1)>>

\* The run of a function's lines from the pc-th on, over constants, copies and
\* branches (IfGOTO branches when its operand is zero): the value returned, if
\* the run reaches a Return, and the set of constants whose Alloc was executed.
RECURSIVE RunLines(_, _, _, _, _)
RunLines(lines, pc, env, ran, fuel) ==
    IF fuel = 0 \/ pc < 1 \/ pc > Len(lines) THEN [ret |-> None, ran |-> ran]
    ELSE LET line == lines[pc]
             inst == line.inst
             val(id) == IF id \in DOMAIN env THEN env[id] ELSE 0
             goto(l) == RunLines(lines, LineOfLabel(lines, l), env, ran, fuel - 1)
             next(e, r) == RunLines(lines, pc + 1, e, r, fuel - 1)
         IN  CASE inst.i = "Alloc" -> next(MapPut(env, line.id[1], inst.val), ran \cup {inst.val})
               [] inst.i = "Assignment" -> next(MapPut(env, inst.dst, val(inst.src)), ran)
               [] inst.i = "Label" -> next(env, ran)
               [] inst.i = "GOTO" -> goto(inst.l)
               [] inst.i = "IfGOTO" -> IF val(inst.id) = 0 THEN goto(inst.l) ELSE next(env, ran)
               [] inst.i = "Return" -> [ret |-> Some(val(inst.id)), ran |-> ran]
               [] OTHER -> [ret |-> None, ran |-> ran]

\* C12: && and || are short-circuit and lowering them succeeds: the function
\* lowered from `<e1> && 5` or `<e1> || 5` (returned, tested by an if, or
\* initializing a variable that is returned) returns 1 or 0 according to the
\* logical value, and does not execute the Alloc of the right operand 5 when e1
\* decides the result (e1 = 0 for &&, e1 = 1 for ||).
C12_ShortCircuit ==
    (Lowered /\ tinput.fam = "logic") =>
        /\ LoweredMain
        /\ LET lines == funcs[1].instructions
               r == RunLines(lines, 1, EmptyMap, {}, 4 * Len(lines))
               decided == (tinput.op = "And" /\ tinput.e1 = 0) \/ (tinput.op = "Or" /\ tinput.e1 = 1)
           IN  /\ r.ret = Some(IF tinput.op = "And" THEN tinput.e1 ELSE 1)
               /\ decided => 5 \notin r.ran

\* The binary operator that a compound assignment operator applies.
BinOpOfAssignmentOp(op) ==
    CASE op = "Plus" -> "Addition"
      [] op = "Sub" -> "Sub"
      [] op = "Mul" -> "Multiplication"
      [] op = "Div" -> "Division"
      [] op = "Mod" -> "Modulo"
      [] op = "BitLeftShift" -> "BitwiseLeftShift"
      [] op = "BitRightShift" -> "BitwiseRightShift"
      [] op = "BitAnd" -> "BitwiseAnd"
      [] op = "BitOr" -> "BitwiseOr"
      [] op = "BitXor" -> "BitwiseXor"

\* The instructions that lowering `v = v <op> 2` in the place of `v <op>= 2` gives.
ExpandedInstructions(in) ==
    lower_body(Generator_new,
               CompoundAround(in, Assign("v", BinOp(BinOpOfAssignmentOp(in.op),
                                                    Var("v"), Const(2))))[1]).instructions

\* C13: for each of the ten compound assignment operators, lowering `v op= e`
\* gives the instruction list of `v = v op e` and returns the ID of v: the
\* function lowered from `int v = 1; v op= 2; return v;` or from
\* `int v = 1; return v op= 2;` has the instructions of the same function
\* written with `v = v op 2`.
C13_CompoundAssignExpands ==
    (Lowered /\ tinput.fam = "compound") =>
        /\ LoweredMain
        /\ funcs[1].instructions = ExpandedInstructions(tinput)

\* C14: declaring a name again in the scope that already declares it makes the
\* lowering return an error instead of aborting, and binds nothing: il does not
\* panic and gives no FuncDef for `int x; int x;`, `int x = 1; int x = 2;`,
\* `int main(x) { int x; }` and `{ int x; int x; }`.  Declaring the name in a
\* strictly inner scope lowers to a FuncDef.
C14_DuplicateDeclaration ==
    (Lowered /\ tinput.fam = "redecl") =>
        IF tinput.place \in {"inner", "inner2"} THEN LoweredMain
        ELSE tpc # "panic" /\ funcs = <<>>

\* C15: a reference to an undeclared variable, and a break or continue outside
\* every loop, make the lowerer return an error to its caller: il does not
\* panic, gives no FuncDef for the function, and the generator holds no GOTO
\* emitted for the break or continue.
C15_LoweringErrorReturned ==
    (Lowered /\ tinput.fam = "unresolved") =>
        /\ tpc # "panic"
        /\ funcs = <<>>
        /\ tinput.kind \in {"break", "continue", "break_in_if"} =>
              \A k \in 1..Len(gen.instructions) : gen.instructions[k].inst.i # "GOTO"

\* C16: in every FuncDef the lowerer produces, over any nesting of if/else,
\* ternary, while, do, for, break and continue, no label number has two Label
\* lines, and every GOTO and IfGOTO targets the number of a Label line of the
\* same function.
C16_LabelsUniqueAndDefined ==
    \A f \in 1..Len(funcs) :
        LET lines == funcs[f].instructions
            n == Len(lines)
        IN  /\ \A j, k \in 1..n :
                  (lines[j].inst.i = "Label" /\ lines[k].inst = lines[j].inst) => j = k
            /\ \A k \in 1..n :
                  lines[k].inst.i \in {"GOTO", "IfGOTO"} =>
                      \E j \in 1..n : lines[j].inst = Label(lines[k].inst.l)

\* C16 witness: the FuncDef of `while (1) if (1) break; else break; ...`, with
\* the labels of a loop, two conditionals and a ternary, and the GOTOs of the breaks.
C16_Witness ==
    /\ LoweredMain
    /\ tinput.fam = "flow" /\ tinput.wrappers = <<"While", "IfElse">> /\ tinput.leaf = "break"
    /\ Len(LinesOf(funcs[1], "Label")) = 8
    /\ Len(LinesOf(funcs[1], "GOTO")) >= 4

\* The IDs an instruction reads.
OperandIDs(inst) ==
    CASE inst.i = "Assignment" -> {inst.src}
      [] inst.i = "Op" -> {inst.a, inst.b}
      [] inst.i = "Unary" -> {inst.a}
      [] inst.i = "Call" -> {inst.params[k] : k \in 1..Len(inst.params)}
      [] inst.i \in {"IfGOTO", "Return"} -> {inst.id}
      [] OTHER -> {}

\* The function of the program that def was lowered from, and the IDs that
\* alloc_var gives its parameters.
FunctionOf(def) ==
    CHOOSE k \in 1..Len(tprogram) : tprogram[k].name = def.name /\ tprogram[k].blocks # None
ParameterIDs(def) ==
    LET parameters == tprogram[FunctionOf(def)].parameters
    IN  {alloc_var(Generator_new, parameters[k]).id : k \in 1..Len(parameters)}

\* C17: in every FuncDef, each ID an instruction reads is the ID of a parameter
\* or the defining ID of an earlier line of the function, also when the ID is
\* that of a variable declared without an initializer.
C17_OperandsDefinedBeforeUse ==
    \A f \in 1..Len(funcs) :
        LET lines == funcs[f].instructions
        IN  \A k \in 1..Len(lines) :
                \A id \in OperandIDs(lines[k].inst) :
                    \/ id \in ParameterIDs(funcs[f])
                    \/ \E j \in 1..(k - 1) : lines[j].id = Some(id)

\* C18: within one function every declaration, parameters included, gets a
\* variable ID of its own.  In the FuncDef of
\* `int main(<params>) { int x ..; int y ..; return ..; }` vars has one entry for
\* each of the declared names; there and in the FuncDef of
\* `int a = 1; W({ int <inner> = 2; }) ...` the declarations, each of which is
\* initialized by one Assignment line, assign to pairwise different IDs.
C18_VariableIDsDistinct ==
    (LoweredMain /\ tinput.fam \in {"decls", "shadow"}) =>
        LET def == funcs[1]
            assigns == LinesOf(def, "Assignment")
        IN  /\ \A j, k \in 1..Len(assigns) : assigns[j].inst.dst = assigns[k].inst.dst => j = k
            /\ tinput.fam = "decls" =>
                  {def.vars[id] : id \in DOMAIN def.vars} =
                      {"x", "y"} \cup {tinput.params[k] : k \in 1..Len(tinput.params)}

\* The number of declarations among the block items, or in the statement, node.
RECURSIVE DeclCount(_, _)
DeclCount(kind, node) ==
    CASE kind = "blocks" ->
            IF node = <<>> THEN 0
            ELSE DeclCount("block", Head(node)) + DeclCount("blocks", Tail(node))
      [] kind = "block" ->
            IF node.b = "Declaration" THEN 1 ELSE DeclCount("statement", node.st)
      [] kind = "statement" ->
            CASE node.s = "Compound" ->
                    IF node.list = None THEN 0 ELSE DeclCount("blocks", node.list[1])
              [] node.s = "Conditional" ->
                    DeclCount("statement", node.if_block)
                        + (IF node.else_block = None THEN 0
                           ELSE DeclCount("statement", node.else_block[1]))
              [] node.s \in {"While", "Do", "For"} -> DeclCount("statement", node.statement)
              [] node.s = "ForDecl" -> 1 + DeclCount("statement", node.statement)
              [] OTHER -> 0

\* The temporaries of a FuncDef: one for each Alloc, Op and Call line, and one
\* for each ternary, whose result is the temporary its Assignment lines assign.
TemporaryCount(def) ==
    Len(LinesOf(def, "Alloc")) + Len(LinesOf(def, "Op")) + Len(LinesOf(def, "Unary"))
        + Len(LinesOf(def, "Call"))
        + Cardinality({def.instructions[k].inst.dst : k \in
              {j \in 1..Len(def.instructions) :
                  /\ def.instructions[j].inst.i = "Assignment"
                  /\ def.instructions[j].inst.dst.tp = "Temporary"}})

\* C19: for every FuncDef, frame_size = 4 x (parameters + declarations +
\* temporaries of that function), where Alloc, Op and Call lines and ternary
\* results count as temporaries and Assignment lines do not; allocations of the
\* functions lowered before it are not counted.
C19_FrameSize ==
    \A f \in 1..Len(funcs) :
        LET func == tprogram[FunctionOf(funcs[f])]
        IN  funcs[f].frame_size =
                4 * (Len(func.parameters) + DeclCount("blocks", func.blocks[1])
                        + TemporaryCount(funcs[f]))

\* C19 witness: il has lowered `int f(p) { int x = 1; return x; }` and then
\* `int h() { int y; return 1 ? 2 : 3; }`: three allocations and then five.
C19_Witness ==
    /\ tpc = "done" /\ tinput.fam = "multi" /\ tinput.fns = <<"f", "h">>
    /\ Len(funcs) = 2
    /\ funcs[1].frame_size = 12 /\ funcs[2].frame_size = 20

\* The names of the functions with a body among the first n of the program.
RECURSIVE BodyNames(_)
BodyNames(n) ==
    IF n = 0 THEN <<>>
    ELSE BodyNames(n - 1) \o (IF tprogram[n].blocks = None THEN <<>> ELSE <<tprogram[n].name>>)

\* The functions of a program of several functions are pairwise different.
DistinctFunctions ==
    \A j, k \in 1..Len(tinput.fns) : tinput.fns[j] = tinput.fns[k] => j = k

\* C20: il gives one FuncDef for each function with a body, in program order,
\* and none for a forward declaration: after each iteration funcs holds the
\* FuncDefs of the functions with a body gone through so far, il returns after
\* going through all functions of a program of forward declarations and
\* definitions, and the iteration over a forward declaration leaves the whole
\* generator as it was.
C20_ForwardDeclarationSkipped ==
    /\ []([k \in 1..Len(funcs) |-> funcs[k].name] = BodyNames(tnext - 1))
    /\ []((Lowered /\ tinput.fam = "multi" /\ DistinctFunctions) =>
            (tpc = "done" /\ tnext = Len(tprogram) + 1))
    /\ [][IlSkipDeclaration => (gen' = gen /\ funcs' = funcs)]_vars

\* C20 witness: il has returned the FuncDefs of f and h for the program
\* `f; int g(a); h`, with the forward declaration between them.
C20_Witness ==
    /\ tpc = "done" /\ tinput.fam = "multi" /\ tinput.fns = <<"f", "g", "h">>
    /\ Len(funcs) = 2 /\ funcs[1].name = "f" /\ funcs[2].name = "h"

\* The indices of the functions with a body among the first n of the program.
RECURSIVE BodyIndices(_)
BodyIndices(n) ==
    IF n = 0 THEN <<>>
    ELSE BodyIndices(n - 1) \o (IF tprogram[n].blocks = None THEN <<>> ELSE <<n>>)

\* The FuncDefs that a generator which has lowered nothing before gives for func
\* (one for each order in which the symbols can be collected; none if it panics).
LoweredAlone(func) ==
    {Generator_parse(Generator_new, func, fvars).def :
        fvars \in collect_vars(lower_body(Generator_new, func).context.symbols)}

\* C21: lowering a function does not depend on the functions lowered before
\* it: every FuncDef il has produced (label numbers, temporary IDs, variable
\* IDs) is the one a fresh generator gives for that function alone, and when il
\* fails at a function, a fresh generator fails at that function too, in every
\* program of functions with different names.  So two functions of a program may
\* declare a parameter or a top-level local of the same name.
C21_FunctionIndependent ==
    (\A j, k \in 1..Len(tprogram) : tprogram[j].name = tprogram[k].name => j = k) =>
        /\ \A k \in 1..Len(funcs) :
              Some(funcs[k]) \in LoweredAlone(tprogram[BodyIndices(Len(tprogram))[k]])
        /\ tpc = "panic" => lower_body(Generator_new, tprogram[tnext]).panicked

\* The statements among the block items, or in the statement, node: the
\* statement itself and every statement nested in it.
RECURSIVE Statements(_, _)
Statements(kind, node) ==
    CASE kind = "blocks" ->
            IF node = <<>> THEN {}
            ELSE Statements("block", Head(node)) \cup Statements("blocks", Tail(node))
      [] kind = "block" ->
            IF node.b = "Declaration" THEN {} ELSE Statements("statement", node.st)
      [] kind = "statement" ->
            {node} \cup
            CASE node.s = "Compound" ->
                    IF node.list = None THEN {} ELSE Statements("blocks", node.list[1])
              [] node.s = "Conditional" ->
                    Statements("statement", node.if_block)
                        \cup (IF node.else_block = None THEN {}
                              ELSE Statements("statement", node.else_block[1]))
              [] node.s \in {"While", "Do", "For", "ForDecl"} ->
                    Statements("statement", node.statement)
              [] OTHER -> {}

\* The statements of all functions of the program.
ProgramStatements ==
    UNION {Statements("blocks", tprogram[k].blocks[1]) :
              k \in {j \in 1..Len(tprogram) : tprogram[j].blocks # None}}

\* Generators in which a statement can start: inside 0 to 2 open scopes and 0
\* to 2 open loops, the loops with labels that uniq_label has already given out.
RECURSIVE Entered(_, _)
Entered(scopes, loops) ==
    IF scopes > 0 THEN start_scope(Entered(scopes - 1, loops))
    ELSE IF loops > 0
        THEN LET g == Entered(0, loops - 1)
                 begin_label == uniq_label(g)
                 end_label == uniq_label(begin_label.g)
             IN  begin_loop(end_label.g, begin_label.l, end_label.l)
    ELSE Generator_new

StartGenerators == {Entered(s, l) : s \in 0..MaxNest, l \in 0..MaxNest}

\* The k-th line of the kind among the instructions of def, from the front
\* (k > 0) or from the back (k <= 0, 0 being the last).
KthLine(def, kind, k) ==
    LET lines == LinesOf(def, kind)
    IN  lines[IF k > 0 THEN k ELSE Len(lines) + k].inst

\* C23: the scope stack and the loop-context stack are balanced.  Lowering any
\* statement of the program, started inside any number of open scopes and
\* loops, leaves the scope stack at its depth (never empty) and the
\* loop-context stack as it was; after a function is lowered the generator is
\* back at one scope and no loop.  A break (continue) after an inner loop in the
\* body of an outer loop jumps to the end (begin) label of the outer loop, and
\* one in the inner loop to the end (begin) label of the inner loop.
C23_StacksBalanced ==
    /\ \A st \in ProgramStatements : \A g \in StartGenerators :
          LET after == emit_statement(g, st)
          IN  ~after.panicked =>
                /\ Len(after.context.scopes) = Len(g.context.scopes)
                /\ after.context.scopes # <<>>
                /\ after.context.loop_ctx = g.context.loop_ctx
    /\ tpc # "panic" => (Len(gen.context.scopes) = 1 /\ gen.context.loop_ctx = <<>>)
    /\ (Lowered /\ tinput.fam = "target") =>
          /\ LoweredMain
          /\ LET def == funcs[1]
                 begin == KthLine(def, "Label", IF tinput.where = "inner" THEN 2 ELSE 1).l
                 end == KthLine(def, "Label", IF tinput.where = "inner" THEN -1 ELSE 0).l
                 goto == KthLine(def, "GOTO", IF tinput.where = "inner" THEN 1 ELSE -1)
             IN  goto.l = (IF tinput.leaf = "break" THEN end ELSE begin)

\* C23 witness: `do { while (1) ; break; } while (1);` is lowered, the break
\* jumping to the last label of the function.
C23_Witness ==
    /\ LoweredMain
    /\ tinput = [fam |-> "target", outer |-> "Do", inner |-> "While", leaf |-> "break",
                 where |-> "after"]
    /\ KthLine(funcs[1], "GOTO", -1).l = KthLine(funcs[1], "Label", 0).l
    /\ Len(LinesOf(funcs[1], "Label")) = 4

\* The indices of the lines executed from the pc-th on, up to a Return, over
\* constants, copies and branches (IfGOTO branches when its operand is zero).
RECURSIVE RunTrace(_, _, _, _)
RunTrace(lines, pc, env, fuel) ==
    IF fuel = 0 \/ pc < 1 \/ pc > Len(lines) THEN <<>>
    ELSE LET line == lines[pc]
             inst == line.inst
             val(id) == IF id \in DOMAIN env THEN env[id] ELSE 0
             to == CASE inst.i = "GOTO" -> LineOfLabel(lines, inst.l)
                     [] inst.i = "IfGOTO" ->
                            IF val(inst.id) = 0 THEN LineOfLabel(lines, inst.l) ELSE pc + 1
                     [] inst.i = "Return" -> 0
                     [] OTHER -> pc + 1
             env2 == CASE inst.i = "Alloc" -> MapPut(env, line.id[1], inst.val)
                       [] inst.i = "Assignment" -> MapPut(env, inst.dst, val(inst.src))
                       [] OTHER -> env
         IN  <<pc>> \o RunTrace(lines, to, env2, fuel - 1)

\* The constants of the Alloc lines among lines[from..to].
AllocsIn(lines, from, to) ==
    {lines[k].inst.val : k \in {j \in from..to : lines[j].inst.i = "Alloc"}}

\* The ID holding the value of the expression whose code ends at lines[to]: the
\* ID of a constant's Alloc, or what the Assignment before a ternary's end
\* label assigns.
ResultOf(lines, to) ==
    IF lines[to].inst.i = "Alloc" THEN lines[to].id[1] ELSE lines[to - 1].inst.dst

\* The IDs that the lines define or read.
IDsOf(lines) ==
    UNION {(IF lines[k].id = None THEN {} ELSE {lines[k].id[1]}) \cup OperandIDs(lines[k].inst) :
              k \in 1..Len(lines)}

\* C24: `c ? t : f` lowers to code(c), IfGOTO(cid, L_else), code(t),
\* Assignment(r, tid), GOTO(L_end), Label(L_else), code(f), Assignment(r, fid),
\* Label(L_end), with r a temporary that no line of c, t or f uses and
\* L_else # L_end.  Run with IfGOTO branching on zero, exactly one of t and f is
\* evaluated, exactly one Assignment to r is executed, and r holds the value of
\* t when c is non-zero and the value of f when c is zero.
C24_TernaryLowering ==
    (Lowered /\ tinput.fam = "ternary") =>
        /\ LoweredMain
        /\ LET lines == funcs[1].instructions
               n == Len(lines)
               end == CHOOSE k \in 1..n :
                         lines[k].inst.i = "Label" /\
                         \A j \in (k + 1)..n : lines[j].inst.i # "Label"
               L_end == lines[end].inst.l
               L_else == lines[2].inst.l
               else == LineOfLabel(lines, L_else)
               r == lines[end - 1].inst.dst
               tid == ResultOf(lines, else - 3)
               fid == ResultOf(lines, end - 2)
               t_consts == IF tinput.t = "const" THEN {2} ELSE {9, 4, 5}
               f_consts == IF tinput.f = "const" THEN {3} ELSE {6, 8}
               trace == RunTrace(lines, 1, EmptyMap, 4 * n)
               run == RunLines(lines, 1, EmptyMap, {}, 4 * n)
               executed == {trace[k] : k \in 1..Len(trace)}
               value == IF tinput.c # 0 THEN (IF tinput.t = "const" THEN 2 ELSE 4)
                        ELSE (IF tinput.f = "const" THEN 3 ELSE 8)
           IN  /\ lines[1] = InstructionLine(Alloc(tinput.c), lines[1].id)
               /\ lines[2].inst = IfGOTO(lines[1].id[1], L_else)
               /\ 3 <= else - 3 /\ else + 1 <= end - 2
               /\ t_consts \subseteq AllocsIn(lines, 3, else - 3)
               /\ AllocsIn(lines, 3, else - 3) \cap f_consts = {}
               /\ lines[else - 2].inst = Assignment(r, tid)
               /\ lines[else - 1].inst = GOTO(L_end)
               /\ lines[else].inst = Label(L_else)
               /\ f_consts \subseteq AllocsIn(lines, else + 1, end - 2)
               /\ AllocsIn(lines, else + 1, end - 2) \cap t_consts = {}
               /\ lines[end - 1].inst = Assignment(r, fid)
               /\ L_else # L_end
               /\ r.tp = "Temporary"
               /\ r \notin IDsOf(SubSeq(lines, 1, else - 3)) \cup IDsOf(SubSeq(lines, else + 1, end - 2))
               /\ (tinput.t = "const" /\ tinput.f = "const") =>
                     (else = 6 /\ end = 9 /\ n = IF tinput.place = "return" THEN 10 ELSE 11)
               /\ Cardinality({k \in executed : lines[k].inst.i = "Assignment"
                                                   /\ lines[k].inst.dst = r}) = 1
               /\ Len(trace) = Cardinality(executed)
               /\ IF tinput.c # 0
                     THEN run.ran \cap f_consts = {} /\ (else - 2) \in executed
                     ELSE run.ran \cap t_consts = {} /\ (end - 1) \in executed
               /\ value \in run.ran
               /\ run.ret = Some(value)

\* C24 witness: `return 0 ? (9 ? 4 : 5) : (0 ? 6 : 8);` is lowered and run: three
\* ternaries give six labels, and the run returns 8.
C24_Witness ==
    /\ LoweredMain
    /\ tinput = [fam |-> "ternary", c |-> 0, t |-> "nested", f |-> "nested", place |-> "return"]
    /\ Len(LinesOf(funcs[1], "Label")) = 6
    /\ RunLines(funcs[1].instructions, 1, EmptyMap, {}, 100).ret = Some(8)

(***************************************************************************)
(* BACKEND  (src/src/generator/from_tac.rs, x64_translator.rs)             *)
(*                                                                         *)
(* from_tac.rs reads TAC lines whose operands are tac::Value (a constant   *)
(* or an ID).  It calls sub, mul, label, jump and if_goto, which neither   *)
(* the Translator trait nor X64Backend of src/ define: they are modelled   *)
(* from section 4.5 of the specification.                                  *)
(***************************************************************************)

\* tac::Value as from_tac.rs reads it, translator::Value
TacConst(int) == [tv |-> "Const", int |-> int]
TacID(id) == [tv |-> "ID", id |-> id]
ValueConst(int) == [v |-> "Const", int |-> int]
Ref(id) == [v |-> "Ref", id |-> id]

\* Place, AsmValue
Stack(off, t) == [p |-> "Stack", off |-> off, t |-> t]
PlaceRegister(reg) == [p |-> "Register", reg |-> reg]
AsmConst(int, t) == [a |-> "Const", int |-> int, t |-> t]
AsmPlace(pl) == [a |-> "Place", place |-> pl]

\* AsmX32
Metadata(s) == [x |-> "Metadata", s |-> s]
AsmLabel(s) == [x |-> "Label", s |-> s]
Mov(pl, v) == [x |-> "Mov", place |-> pl, v |-> v]
Add(pl, v) == [x |-> "Add", place |-> pl, v |-> v]
Push(v) == [x |-> "Push", v |-> v]
Pop(pl) == [x |-> "Pop", place |-> pl]
Ret == [x |-> "Ret"]

\* The instructions of section 4.5 that AsmX32 of src/ lacks: `sub`, `imul`,
\* `.L<n>:`, `jmp .L<n>`, `cmp`, `je .L<n>`.
Sub(pl, v) == [x |-> "Sub", place |-> pl, v |-> v]
IMul(pl, v) == [x |-> "IMul", place |-> pl, v |-> v]
LocalLabel(n) == [x |-> "LocalLabel", n |-> n]
Jmp(n) == [x |-> "Jmp", n |-> n]
Cmp(v1, v2) == [x |-> "Cmp", v1 |-> v1, v2 |-> v2]
Je(n) == [x |-> "Je", n |-> n]

\* Register::REGISTERS (index i of the code is element i + 1)
REGISTERS ==
    << "", "", "rax", "eax", "rbx", "ebx", "rcx", "ecx", "rdx", "edx", "rsi", "esi", "rdi",
       "edi", "rbp", "ebp", "rsp", "esp", "r8", "r8d", "r9", "r9d", "r10", "r10d", "r11",
       "r11d", "r12", "r12d", "r13", "r13d", "r14", "r14d", "r15", "r15d" >>

\* Register::reg_index: the first index with that name.
reg_index(reg) ==
    LET hits == {i \in 0..(Len(REGISTERS) - 1) : REGISTERS[i + 1] = reg}
    IN  IF hits = {} THEN None ELSE Some(CHOOSE i \in hits : \A j \in hits : i <= j)

\* Register::new: Register(index); None where reg_index(..).unwrap() panics.
Register_new(reg_str) ==
    IF reg_index(reg_str) = None THEN None ELSE Some(reg_index(reg_str)[1])

\* Register::size: None stands for unimplemented!().
Register_size(reg) ==
    IF reg % 2 = 0 THEN Some("Quadword")
    ELSE IF reg % 3 = 0 THEN Some("Doubleword")
    ELSE None

\* A cast that keeps the view it is given (the contrast of Register::cast).
cast_kept(reg, size) == Some(reg)

\* Register::cast: None stands for unimplemented!(), of size() or of cast.
Register_cast(reg, size) ==
    LET self_size == Register_size(reg)
    IN  IF self_size = None THEN None
        ELSE IF self_size[1] = size THEN Some(reg)
        ELSE IF self_size[1] = "Quadword" /\ size = "Doubleword" THEN Some(reg + 1)
        ELSE IF self_size[1] = "Doubleword" /\ size = "Quadword" THEN Some(reg - 1)
        ELSE None

\* The registers the backend names.
rax == Register_new("rax")[1]
rbp == Register_new("rbp")[1]
rsp == Register_new("rsp")[1]

\* X64Backend::new; panicked is the panic of the generating thread, and every
\* operation of a panicked backend is skipped.
X64Backend_new == [stack_index |-> 0, memory |-> EmptyMap, asm |-> <<>>, panicked |-> FALSE]

bpanic(b) == [b EXCEPT !.panicked = TRUE]

\* X64Backend::push_asm
push_asm(b, i) == IF b.panicked THEN b ELSE [b EXCEPT !.asm = Append(@, i)]

\* X64Backend::func_begin
func_begin(b, name) ==
    LET b1 == push_asm(b, Metadata(<<".globl ", name>>))
        b2 == push_asm(b1, AsmLabel(name))
        b3 == push_asm(b2, Push(AsmPlace(PlaceRegister(rbp))))
    IN  push_asm(b3, Mov(PlaceRegister(rbp), AsmPlace(PlaceRegister(rsp))))

\* X64Backend::func_end
func_end(b) == push_asm(push_asm(b, Pop(PlaceRegister(rbp))), Ret)

\* X64Backend::save: the body is empty.
save(b, id, t, value) == b

\* X64Backend::place
place(b, id) == IF id \in DOMAIN b.memory THEN Some(b.memory[id]) ELSE None

\* X64Backend::save_place
save_place(b, id, pl) == IF b.panicked THEN b ELSE [b EXCEPT !.memory = MapPut(@, id, pl)]

\* X64Backend::const_or_allocated: None where place(&id).unwrap() panics.
const_or_allocated(b, t, v) ==
    IF v.v = "Const" THEN Some(AsmConst(v.int, t))
    ELSE IF place(b, v.id) = None THEN None
    ELSE Some(AsmPlace(place(b, v.id)[1]))

\* X64Backend::value_size: None where Register::size panics.
value_size(v) ==
    IF v.a = "Const" THEN Some(v.t)
    ELSE IF v.place.p = "Stack" THEN Some(v.place.t)
    ELSE Register_size(v.place.reg)

\* X64Backend::alloc: None stands for unimplemented!().
alloc(b, t) ==
    LET size == CASE t = "Doubleword" -> Some(4) [] t = "Quadword" -> Some(8) [] OTHER -> None
    IN  IF size = None THEN [b |-> bpanic(b), place |-> None]
        ELSE [b |-> [b EXCEPT !.stack_index = @ + size[1]],
              place |-> Stack(b.stack_index + size[1], t)]

\* X64Backend::copy_on
copy_on(b, t, v, pl) ==
    LET value == const_or_allocated(b, t, v)
    IN  IF value = None THEN [b |-> bpanic(b), place |-> pl]
        ELSE [b |-> push_asm(b, Mov(pl, value[1])), place |-> pl]

\* X64Backend::add and, by section 4.5 ("analogous"), sub and mul: a is
\* materialized into the accumulator of the type and the instruction of the
\* operator is emitted with b.
arith(b, id, t, a, bv, op) ==
    LET first == const_or_allocated(b, t, bv)
        reg == Register_cast(rax, t)
        second == copy_on(b, t, a, PlaceRegister(reg[1]))
        b1 == save_place(second.b, id, second.place)
    IN  IF b.panicked THEN b
        ELSE IF first = None \/ reg = None THEN bpanic(b)
        ELSE CASE op = "Add" -> push_asm(b1, Add(second.place, first[1]))
               [] op = "Sub" -> push_asm(b1, Sub(second.place, first[1]))
               [] op = "Mul" -> push_asm(b1, IMul(second.place, first[1]))

add(b, id, t, a, bv) == arith(b, id, t, a, bv, "Add")
sub(b, id, t, a, bv) == arith(b, id, t, a, bv, "Sub")
mul(b, id, t, a, bv) == arith(b, id, t, a, bv, "Mul")

\* X64Backend::ret
ret(b, t, v) ==
    LET value == const_or_allocated(b, t, v)
        size == value_size(value[1])
        return_reg == Register_cast(rax, size[1])
    IN  IF b.panicked THEN b
        ELSE IF value = None THEN bpanic(b)
        ELSE IF size = None THEN bpanic(b)
        ELSE IF return_reg = None THEN bpanic(b)
        ELSE IF value[1] = AsmPlace(PlaceRegister(return_reg[1])) THEN b
        ELSE push_asm(b, Mov(PlaceRegister(return_reg[1]), value[1]))

\* Section 4.5: Label(n) -> `.L<n>:`, Goto(n) -> `jmp .L<n>`,
\* IfZeroGoto(id, n) -> `cmp $0, <id>; je .L<n>`; an unknown ID is an error.
label(b, index) == push_asm(b, LocalLabel(index))
jump(b, l) == push_asm(b, Jmp(l))
if_goto(b, t, v, l) ==
    LET value == const_or_allocated(b, t, v)
    IN  IF b.panicked THEN b
        ELSE IF value = None THEN bpanic(b)
        ELSE push_asm(push_asm(b, Cmp(AsmConst(0, t), value[1])), Je(l))

\* parse_id: `id.id as u32`; the lowerer numbers IDs from 0 and the cast changes
\* no number below 2^32.
parse_id(id) == id.id

\* parse_value
parse_value(v) == IF v.tv = "Const" THEN ValueConst(v.int) ELSE Ref(parse_id(v.id))

\* translate: line.1.unwrap() panics on a line without an ID, and every
\* instruction without an arm of its own ends in unimplemented!().
translate(b, line) ==
    LET inst == line.inst
    IN  CASE inst.i = "Op" /\ inst.op[1] = "Arithmetic" /\ inst.op[2] \in {"Add", "Sub", "Mul"} ->
                IF line.id = None THEN bpanic(b)
                ELSE arith(b, parse_id(line.id[1]), "Doubleword",
                           parse_value(inst.a), parse_value(inst.b), inst.op[2])
          [] inst.i \in {"Alloc", "Assignment"} ->
                IF line.id = None THEN bpanic(b)
                ELSE save(b, parse_id(line.id[1]), "Doubleword",
                          Some(parse_value(IF inst.i = "Alloc" THEN inst.val ELSE inst.src)))
          [] inst.i = "Return" -> ret(b, "Doubleword", parse_value(inst.id))
          [] inst.i = "Label" -> label(b, inst.l)
          [] inst.i = "GOTO" -> jump(b, inst.l)
          [] inst.i = "IfGOTO" -> if_goto(b, "Doubleword", parse_value(inst.id), inst.l)
          [] OTHER -> bpanic(b)

\* ---- the machine that runs the emitted instructions ----
\* regs holds the 64-bit registers by the index of their name; the register of
\* the following odd index is the low doubleword.  slots is the memory the
\* stack pointer and the frame pointer address.  The inputs keep every value
\* within the non-negative doubleword range, where a register and its low
\* doubleword hold the same number and no operation wraps.

RegBase(reg) == IF reg % 2 = 0 THEN reg ELSE reg - 1

ReadPlace(m, pl) ==
    IF pl.p = "Register" THEN m.regs[RegBase(pl.reg)]
    ELSE m.slots[m.regs[rbp] - pl.off]

ReadValue(m, v) == IF v.a = "Const" THEN v.int ELSE ReadPlace(m, v.place)

WritePlace(m, pl, val) ==
    IF pl.p = "Register"
        THEN [m EXCEPT !.regs[RegBase(pl.reg)] = val]
        ELSE [m EXCEPT !.slots = MapPut(@, m.regs[rbp] - pl.off, val)]

\* The index in asm of `.L<n>:`.
LabelIndex(asm, n) == CHOOSE i \in 1..Len(asm) : asm[i] = LocalLabel(n)

\* One instruction; Ret stops the machine.
Step(m, asm) ==
    LET i == asm[m.pc]
        next == [m EXCEPT !.pc = @ + 1]
    IN  CASE i.x \in {"Metadata", "Label", "LocalLabel"} -> next
          [] i.x = "Mov" -> WritePlace(next, i.place, ReadValue(m, i.v))
          [] i.x = "Add" -> WritePlace(next, i.place, ReadPlace(m, i.place) + ReadValue(m, i.v))
          [] i.x = "Sub" ->
                WritePlace(next, i.place, ReadPlace(m, i.place) - ReadValue(m, i.v))
          [] i.x = "IMul" -> WritePlace(next, i.place, ReadPlace(m, i.place) * ReadValue(m, i.v))
          [] i.x = "Push" ->
                [next EXCEPT !.regs[rsp] = @ - 8,
                             !.slots = MapPut(@, m.regs[rsp] - 8, ReadValue(m, i.v))]
          [] i.x = "Pop" ->
                WritePlace([next EXCEPT !.regs[rsp] = @ + 8], i.place, m.slots[m.regs[rsp]])
          [] i.x = "Cmp" -> [next EXCEPT !.zf = (ReadValue(m, i.v2) = ReadValue(m, i.v1))]
          [] i.x = "Je" -> IF m.zf THEN [m EXCEPT !.pc = LabelIndex(asm, i.n)] ELSE next
          [] i.x = "Jmp" -> [m EXCEPT !.pc = LabelIndex(asm, i.n)]
          [] i.x = "Ret" -> [m EXCEPT !.halted = TRUE]

\* What the accumulator can hold when the function is entered.
InitialAccumulator == {0, 77}

Machine(acc) ==
    [pc |-> 1, regs |-> [r \in {rax, rbp, rsp} |-> IF r = rax THEN acc ELSE 64],
     slots |-> EmptyMap, zf |-> FALSE, halted |-> FALSE]

(***************************************************************************)
(* Backend inputs: the instruction lists of one function, of the lines     *)
(* below, with the temporaries numbered in the order of their lines, every *)
(* operand defined by a line before it and every branch target a label of  *)
(* the list, as the lowerer numbers and orders them.                       *)
(***************************************************************************)

\* Most lines of a function.
MaxLines == 3

Tmp(n) == TacID(ID_new(n, "Temporary"))

LineShapes ==
    {[k |-> "Add", a |-> a, b |-> b] : a \in {TacConst(1), Tmp(0)}, b \in {TacConst(2), Tmp(0)}}
    \cup {[k |-> "Sub", a |-> TacConst(2), b |-> TacConst(1)]}
    \cup {[k |-> "Alloc", val |-> TacConst(1)]}
    \cup {[k |-> "Return", v |-> v] : v \in {TacConst(10), TacConst(20), Tmp(0), Tmp(1)}}
    \cup {[k |-> "Label"], [k |-> "GOTO"]}
    \cup {[k |-> "IfGOTO", v |-> v] : v \in {TacConst(0), Tmp(0)}}
    \cup {[k |-> "Unary"]}

\* The temporaries a line reads.
ShapeReads(s) ==
    LET vs == CASE s.k \in {"Add", "Sub"} -> {s.a, s.b}
                [] s.k \in {"Return", "IfGOTO"} -> {s.v}
                [] OTHER -> {}
    IN  {v.id.id : v \in {w \in vs : w.tv = "ID"}}

Defines(s) == s.k \in {"Add", "Sub", "Alloc", "Unary"}

DefinedBefore(shapes, i) == Cardinality({j \in 1..(i - 1) : Defines(shapes[j])})

WellFormed(shapes) ==
    /\ \A i \in 1..Len(shapes) : \A n \in ShapeReads(shapes[i]) : n < DefinedBefore(shapes, i)
    /\ Cardinality({i \in 1..Len(shapes) : shapes[i].k = "Label"}) <= 1
    /\ (\E i \in 1..Len(shapes) : shapes[i].k \in {"GOTO", "IfGOTO"})
            => \E i \in 1..Len(shapes) : shapes[i].k = "Label"

BackendInputs == {s \in SeqsUpTo(LineShapes, MaxLines) : WellFormed(s)}

LineOf(shapes, i) ==
    LET s == shapes[i]
        id == Some(ID_new(DefinedBefore(shapes, i), "Temporary"))
    IN  CASE s.k = "Add" -> InstructionLine(OpOp(<<"Arithmetic", "Add">>, s.a, s.b), id)
          [] s.k = "Sub" -> InstructionLine(OpOp(<<"Arithmetic", "Sub">>, s.a, s.b), id)
          [] s.k = "Alloc" -> InstructionLine(Alloc(s.val), id)
          [] s.k = "Unary" -> InstructionLine(OpUnary("Neg", TacConst(1)), id)
          [] s.k = "Return" -> InstructionLine(Return(s.v), None)
          [] s.k = "Label" -> InstructionLine(Label(0), None)
          [] s.k = "GOTO" -> InstructionLine(GOTO(0), None)
          [] s.k = "IfGOTO" -> InstructionLine(IfGOTO(s.v, 0), None)

FuncOf(shapes) ==
    FuncDef("main", 4 * Cardinality({i \in 1..Len(shapes) : Defines(shapes[i])}), EmptyMap,
            [i \in 1..Len(shapes) |-> LineOf(shapes, i)])

InitBackend ==
    /\ LexIdle /\ ParseIdle /\ TacIdle /\ AsmIdle /\ RegIdle
    /\ binput \in BackendInputs
    /\ bfunc = FuncOf(binput)
    /\ bnext = 1
    /\ backend = X64Backend_new
    /\ machine = None
    /\ bpc = "begin"

\* Transit::gen: translator.func_begin(&func.name)
GenFuncBegin ==
    /\ bpc = "begin"
    /\ backend' = func_begin(backend, bfunc.name)
    /\ bpc' = "lines"
    /\ UNCHANGED <<binput, bfunc, bnext, machine>>
    /\ UNCHANGED notBackendVars

\* Transit::gen, one iteration of the loop: translate(translator, instruction)
GenTranslate ==
    /\ bpc = "lines"
    /\ bnext <= Len(bfunc.instructions)
    /\ ~translate(backend, bfunc.instructions[bnext]).panicked
    /\ backend' = translate(backend, bfunc.instructions[bnext])
    /\ bnext' = bnext + 1
    /\ UNCHANGED <<binput, bfunc, machine, bpc>>
    /\ UNCHANGED notBackendVars

\* Transit::gen, one iteration of the loop: translate panics.
GenPanic ==
    /\ bpc = "lines"
    /\ bnext <= Len(bfunc.instructions)
    /\ translate(backend, bfunc.instructions[bnext]).panicked
    /\ backend' = translate(backend, bfunc.instructions[bnext])
    /\ bpc' = "panic"
    /\ UNCHANGED <<binput, bfunc, bnext, machine>>
    /\ UNCHANGED notBackendVars

\* Transit::gen: translator.func_end() and stash(); the function is then called
\* with some value in the accumulator.
GenFuncEnd ==
    /\ bpc = "lines"
    /\ bnext > Len(bfunc.instructions)
    /\ backend' = func_end(backend)
    /\ \E acc \in InitialAccumulator : machine' = Machine(acc)
    /\ bpc' = "exec"
    /\ UNCHANGED <<binput, bfunc, bnext>>
    /\ UNCHANGED notBackendVars

\* The machine runs one instruction of the function.
ExecStep ==
    /\ bpc = "exec"
    /\ backend.asm[machine.pc].x # "Ret"
    /\ machine' = Step(machine, backend.asm)
    /\ UNCHANGED <<binput, bfunc, bnext, backend, bpc>>
    /\ UNCHANGED notBackendVars

\* The machine runs `ret`: the function returns what the accumulator holds.
ExecRet ==
    /\ bpc = "exec"
    /\ backend.asm[machine.pc].x = "Ret"
    /\ machine' = Step(machine, backend.asm)
    /\ bpc' = "halt"
    /\ UNCHANGED <<binput, bfunc, bnext, backend>>
    /\ UNCHANGED notBackendVars

NextBackend == GenFuncBegin \/ GenTranslate \/ GenPanic \/ GenFuncEnd \/ ExecStep \/ ExecRet

SpecBackend == InitBackend /\ [][NextBackend]_vars

(***************************************************************************)
(* Backend claims.                                                         *)
(***************************************************************************)

\* The value of a TAC operand in env, None when the ID has no value yet.
TacValue(env, v) ==
    IF v.tv = "Const" THEN Some(v.int)
    ELSE IF v.id \in DOMAIN env THEN Some(env[v.id]) ELSE None

\* The index of Label(l) in lines.
TacLabelIndex(lines, l) == CHOOSE i \in 1..Len(lines) : lines[i].inst = Label(l)

\* The TAC instruction list run from line pc on, IfGOTO branching when its
\* operand is zero: Some(the value of the first Return reached), None when no
\* Return is reached within fuel lines or an operand has no value.
RECURSIVE TacRun(_, _, _, _)
TacRun(lines, pc, env, fuel) ==
    IF fuel = 0 \/ pc > Len(lines) THEN None
    ELSE LET inst == lines[pc].inst
             dst == lines[pc].id[1]
         IN  CASE inst.i = "Return" -> TacValue(env, inst.id)
               [] inst.i = "Alloc" ->
                    TacRun(lines, pc + 1, MapPut(env, dst, inst.val.int), fuel - 1)
               [] inst.i = "Assignment" ->
                    IF TacValue(env, inst.src) = None THEN None
                    ELSE TacRun(lines, pc + 1, MapPut(env, dst, TacValue(env, inst.src)[1]),
                                fuel - 1)
               [] inst.i = "Op" ->
                    LET a == TacValue(env, inst.a)
                        b == TacValue(env, inst.b)
                    IN  IF a = None \/ b = None THEN None
                        ELSE TacRun(lines, pc + 1,
                                    MapPut(env, dst,
                                           CASE inst.op[2] = "Add" -> a[1] + b[1]
                                             [] inst.op[2] = "Sub" -> a[1] - b[1]
                                             [] inst.op[2] = "Mul" -> a[1] * b[1]),
                                    fuel - 1)
               [] inst.i = "Label" -> TacRun(lines, pc + 1, env, fuel - 1)
               [] inst.i = "GOTO" -> TacRun(lines, TacLabelIndex(lines, inst.l), env, fuel - 1)
               [] inst.i = "IfGOTO" ->
                    LET c == TacValue(env, inst.id)
                    IN  IF c = None THEN None
                        ELSE TacRun(lines, IF c[1] = 0 THEN TacLabelIndex(lines, inst.l)
                                           ELSE pc + 1, env, fuel - 1)
               [] OTHER -> None

\* The value of the first Return reached in execution order.
FirstReturn == TacRun(bfunc.instructions, 1, EmptyMap, 3 * Len(bfunc.instructions))

\* Some Return of the list is followed by further instructions.
ReturnThenMore ==
    \E i \in 1..(Len(bfunc.instructions) - 1) : bfunc.instructions[i].inst.i = "Return"

\* C1: a return ends the function: when the instruction list has a Return
\* followed by further instructions, the accumulator at `ret` holds the value of
\* the first Return reached in execution order.
C1_ReturnEndsFunction ==
    (bpc = "halt" /\ ReturnThenMore /\ FirstReturn # None) =>
        ReadPlace(machine, PlaceRegister(Register_cast(rax, "Doubleword")[1]))
            = FirstReturn[1]

\* The instruction list of the function has no Return line.
NoReturn == \A i \in 1..Len(bfunc.instructions) : bfunc.instructions[i].inst.i # "Return"

\* C22: for a function whose instruction list has no Return, the emitted
\* instructions end with `mov $0, %eax; pop %rbp; ret`, hold exactly one `ret`,
\* and the function returns 0 whatever the accumulator held on entry.
C22_ImplicitReturnZero ==
    (bpc \in {"exec", "halt"} /\ NoReturn) =>
        LET asm == backend.asm
            n == Len(asm)
            eax == PlaceRegister(Register_cast(rax, "Doubleword")[1])
        IN  /\ n >= 3
            /\ asm[n - 2] = Mov(eax, AsmConst(0, "Doubleword"))
            /\ asm[n - 1] = Pop(PlaceRegister(rbp))
            /\ asm[n] = Ret
            /\ Cardinality({i \in 1..n : asm[i] = Ret}) = 1
            /\ bpc = "halt" => ReadPlace(machine, eax) = 0

(***************************************************************************)
(* AST-TO-ASSEMBLY GENERATOR  (src/src/generator.rs)                       *)
(*                                                                         *)
(* generator.rs walks a function of statements Return, Exp and Declare     *)
(* over the expressions Const, UnOp, BinOp, Assign and Var, and returns    *)
(* the lines of the function as text.  A line is modelled by its mnemonic  *)
(* and its operands in the order of the text (source first).               *)
(***************************************************************************)

\* The statements and the function generator.rs matches on.
GReturn(exp) == [s |-> "Return", exp |-> exp]
GExp(exp) == [s |-> "Exp", exp |-> exp]
GDeclare(name, exp) == [s |-> "Declare", name |-> name, exp |-> exp]
Func(name, statements) == [name |-> name, statements |-> statements]

\* Operands and lines of the text: `%rax`, `$5`, `-8(%rbp)`, `_clause1`.
Reg(r) == [k |-> "reg", r |-> r]
Imm(v) == [k |-> "imm", v |-> v]
Mem(off) == [k |-> "mem", off |-> off]
Name(prefix, n) == [k |-> "name", prefix |-> prefix, n |-> n]
Ins0(o) == [o |-> o]
Ins1(o, a) == [o |-> o, a |-> a]
Ins2(o, a, b) == [o |-> o, a |-> a, b |-> b]
LabelLine(l) == [o |-> "label", a |-> l]
FuncLine(name) == [o |-> "func", a |-> name]

\* Result<Vec<String>>; label_counter is the static LABEL_COUNTER of
\* unique_label after the call.
GOk(code, label_counter) == [kind |-> "Ok", code |-> code, label_counter |-> label_counter]
GenError(var) == [kind |-> "Err", var |-> var]

PLATFORM_WORD_SIZE == 8

\* AsmFunc::new
AsmFunc_new == [variable_map |-> EmptyMap, stack_index |-> -PLATFORM_WORD_SIZE]

\* AsmFunc::unique_label: the counter is incremented, then formatted.
unique_label(label_counter, prefix) ==
    [label |-> Name(CASE prefix = "" -> "_clause" [] prefix = "end" -> "_end",
                    label_counter + 1),
     label_counter |-> label_counter + 1]

\* AsmFunc::gen_const
gen_const(c) == <<Ins2("mov", Imm(c.val), Reg("rax"))>>

\* gen_unop, the lines after the operand's code
unop_code(op) ==
    CASE op = "Negation" -> <<Ins1("neg", Reg("rax"))>>
      [] op = "LogicalNegation" ->
            << Ins2("cmpl", Imm(0), Reg("eax")), Ins2("movl", Imm(0), Reg("eax")),
               Ins1("sete", Reg("al")) >>
      [] op = "BitwiseComplement" -> <<Ins1("not", Reg("eax"))>>
      [] op = "Increment" -> <<Ins1("inc", Reg("eax"))>>
      [] op = "Decrement" -> <<Ins1("dec", Reg("eax"))>>

\* gen_binop, the closure code_with
code_with(exp1, exp2, exp) ==
    exp1 \o <<Ins1("push", Reg("rax"))>> \o exp2 \o <<Ins1("pop", Reg("rcx"))>> \o exp

\* gen_binop, the lines a comparison hands to code_with
compare_code(set) ==
    << Ins2("cmp", Reg("rax"), Reg("rcx")), Ins2("mov", Imm(0), Reg("eax")),
       Ins1(set, Reg("al")) >>

\* gen_binop, the match on the operator, with the code of the operands and the
\* label counter they left.
binop_code(op, exp1, exp2, label_counter) ==
    LET with(exp) == GOk(code_with(exp1, exp2, exp), label_counter)
        clause == unique_label(label_counter, "")
        end_label == unique_label(clause.label_counter, "end")
        test == << Ins2("cmp", Imm(0), Reg("rax")), Ins2("mov", Imm(0), Reg("rax")),
                   Ins1("setne", Reg("al")), LabelLine(end_label.label) >>
    IN  CASE op = "BitwiseXor" -> with(<<Ins2("xor", Reg("rcx"), Reg("rax"))>>)
          [] op = "BitwiseOr" -> with(<<Ins2("or", Reg("rcx"), Reg("rax"))>>)
          [] op = "BitwiseAnd" -> with(<<Ins2("and", Reg("rcx"), Reg("rax"))>>)
          [] op = "Addition" -> with(<<Ins2("add", Reg("rcx"), Reg("rax"))>>)
          [] op = "Sub" ->
                with(<<Ins2("sub", Reg("rax"), Reg("rcx")), Ins2("mov", Reg("rcx"), Reg("rax"))>>)
          [] op = "Multiplication" -> with(<<Ins2("imul", Reg("rcx"), Reg("rax"))>>)
          [] op = "Division" ->
                with(<< Ins2("mov", Reg("rax"), Reg("rbx")), Ins2("mov", Reg("rcx"), Reg("rax")),
                        Ins2("mov", Reg("rbx"), Reg("rcx")), Ins0("cqo"),
                        Ins1("idiv", Reg("rcx")) >>)
          [] op = "Modulo" ->
                with(<< Ins2("mov", Reg("rax"), Reg("rbx")), Ins2("mov", Reg("rcx"), Reg("rax")),
                        Ins2("mov", Reg("rbx"), Reg("rcx")), Ins0("cqo"),
                        Ins1("idiv", Reg("rcx")), Ins2("mov", Reg("rdx"), Reg("rax")) >>)
          [] op = "And" ->
                GOk(exp1 \o << Ins2("cmp", Imm(0), Reg("rax")), Ins1("jne", clause.label),
                               Ins1("jmp", end_label.label), LabelLine(clause.label) >>
                         \o exp2 \o test,
                    end_label.label_counter)
          [] op = "Or" ->
                GOk(exp1 \o << Ins2("cmp", Imm(0), Reg("rax")), Ins1("je", clause.label),
                               Ins2("mov", Imm(1), Reg("rax")), Ins1("jmp", end_label.label),
                               LabelLine(clause.label) >>
                         \o exp2 \o test,
                    end_label.label_counter)
          [] op = "Equal" -> with(compare_code("sete"))
          [] op = "NotEqual" -> with(compare_code("setne"))
          [] op = "LessThan" -> with(compare_code("setl"))
          [] op = "LessThanOrEqual" -> with(compare_code("setle"))
          [] op = "GreaterThan" -> with(compare_code("setg"))
          [] op = "GreaterThanOrEqual" -> with(compare_code("setge"))
          [] op = "BitwiseLeftShift" -> with(<<Ins2("sal", Reg("rcx"), Reg("rax"))>>)
          [] op = "BitwiseRightShift" -> with(<<Ins2("sar", Reg("rcx"), Reg("rax"))>>)

\* AsmFunc::gen_expr with gen_unop and gen_binop; `?` hands an Err on.
RECURSIVE gen_expr(_, _, _)
gen_expr(self, label_counter, expr) ==
    CASE expr.e = "Const" -> GOk(gen_const(expr), label_counter)
      [] expr.e = "UnOp" ->
            LET code == gen_expr(self, label_counter, expr.exp)
            IN  IF code.kind = "Err" THEN code
                ELSE GOk(code.code \o unop_code(expr.op), code.label_counter)
      [] expr.e = "BinOp" ->
            LET exp1 == gen_expr(self, label_counter, expr.l)
                exp2 == gen_expr(self, exp1.label_counter, expr.r)
            IN  IF exp1.kind = "Err" THEN exp1
                ELSE IF exp2.kind = "Err" THEN exp2
                ELSE binop_code(expr.op, exp1.code, exp2.code, exp2.label_counter)
      [] expr.e = "Assign" ->
            LET code == gen_expr(self, label_counter, expr.exp)
            IN  IF code.kind = "Err" THEN code
                ELSE IF expr.name \notin DOMAIN self.variable_map THEN GenError(expr.name)
                ELSE GOk(code.code \o
                            <<Ins2("mov", Reg("rax"), Mem(self.variable_map[expr.name]))>>,
                         code.label_counter)
      [] expr.e = "Var" ->
            IF expr.name \notin DOMAIN self.variable_map THEN GenError(expr.name)
            ELSE GOk(<<Ins2("mov", Mem(self.variable_map[expr.name]), Reg("rax"))>>,
                     label_counter)

\* AsmFunc::gen_statement: the AsmFunc left behind and the code.
gen_statement(self, label_counter, st) ==
    IF st.s \in {"Return", "Exp"}
        THEN [self |-> self, r |-> gen_expr(self, label_counter, st.exp)]
    ELSE IF st.name \in DOMAIN self.variable_map
        THEN [self |-> self, r |-> GenError(st.name)]
    ELSE LET self2 == [variable_map |-> MapPut(self.variable_map, st.name, self.stack_index),
                       stack_index |-> self.stack_index - PLATFORM_WORD_SIZE]
             code == gen_expr(self2, label_counter, st.exp[1])
         IN  [self |-> self2,
              r |-> IF st.exp = None THEN GOk(<<Ins1("push", Imm(0))>>, label_counter)
                    ELSE IF code.kind = "Err" THEN code
                    ELSE GOk(code.code \o <<Ins1("push", Reg("rax"))>>, code.label_counter)]

\* AsmFunc::gen, `for statement in statements { code.extend(..?) }`
RECURSIVE gen_statements(_, _, _)
gen_statements(self, label_counter, statements) ==
    IF statements = <<>> THEN GOk(<<>>, label_counter)
    ELSE LET first == gen_statement(self, label_counter, Head(statements))
             rest == gen_statements(first.self, first.r.label_counter, Tail(statements))
         IN  IF first.r.kind = "Err" THEN first.r
             ELSE IF rest.kind = "Err" THEN rest
             ELSE GOk(first.r.code \o rest.code, rest.label_counter)

\* AsmFunc::gen on a new AsmFunc, as generator::gen calls it: the label of the
\* function, the prologue, the statements, `ret $0` when no statement is a
\* Return, and the epilogue.
AsmFunc_gen(st, label_counter) ==
    LET prologue == <<Ins1("push", Reg("rbp")), Ins2("mov", Reg("rsp"), Reg("rbp"))>>
        epilogue == <<Ins2("mov", Reg("rbp"), Reg("rsp")), Ins1("pop", Reg("rbp")), Ins0("ret")>>
        return_exists == \E k \in 1..Len(st.statements) : st.statements[k].s = "Return"
        code == gen_statements(AsmFunc_new, label_counter, st.statements)
    IN  IF code.kind = "Err" THEN code
        ELSE GOk(<<FuncLine(st.name)>> \o prologue \o code.code
                    \o (IF return_exists THEN <<>> ELSE <<Ins1("ret", Imm(0))>>)
                    \o epilogue,
                 code.label_counter)
\* ---- the machine that runs the lines ----
\* regs holds the 64-bit registers; eax and al name the low part of rax, and
\* the inputs keep every value within the range where the parts agree.  cmp
\* keeps the two numbers it compared, (second operand, first operand), for the
\* conditional instructions after it.

RegOf(r) == IF r \in {"eax", "al"} THEN "rax" ELSE r

GReadOperand(m, x) ==
    CASE x.k = "imm" -> x.v
      [] x.k = "reg" -> m.regs[RegOf(x.r)]
      [] x.k = "mem" -> m.mem[m.regs["rbp"] + x.off]

GWriteOperand(m, x, val) ==
    IF x.k = "reg" THEN [m EXCEPT !.regs[RegOf(x.r)] = val]
    ELSE [m EXCEPT !.mem = MapPut(@, m.regs["rbp"] + x.off, val)]

\* Bitwise and, or, xor of two's complement numbers.
RECURSIVE BitOp(_, _, _)
BitOp(op, x, y) ==
    LET bit(p, q) == CASE op = "and" -> p /\ q [] op = "or" -> p \/ q [] op = "xor" -> p # q
    IN  IF x \in {0, -1} /\ y \in {0, -1} THEN (IF bit(x = -1, y = -1) THEN -1 ELSE 0)
        ELSE (IF bit(x % 2 = 1, y % 2 = 1) THEN 1 ELSE 0) + 2 * BitOp(op, x \div 2, y \div 2)

RECURSIVE Pow2(_)
Pow2(n) == IF n = 0 THEN 1 ELSE 2 * Pow2(n - 1)

\* Division truncating toward zero, and its remainder.
Quot(x, y) ==
    LET ax == IF x < 0 THEN -x ELSE x
        ay == IF y < 0 THEN -y ELSE y
    IN  IF (x < 0) = (y < 0) THEN ax \div ay ELSE -(ax \div ay)
Rem(x, y) == x - y * Quot(x, y)

\* The index of the line `<l>:`.
GLabelIndex(code, l) ==
    CHOOSE i \in 1..Len(code) : code[i].o = "label" /\ code[i].a = l

\* The condition of a set or jump instruction holds after cmp.
Holds(o, cmp) ==
    CASE o \in {"sete", "je"} -> cmp[1] = cmp[2]
      [] o \in {"setne", "jne"} -> cmp[1] # cmp[2]
      [] o = "setl" -> cmp[1] < cmp[2]
      [] o = "setle" -> cmp[1] <= cmp[2]
      [] o = "setg" -> cmp[1] > cmp[2]
      [] o = "setge" -> cmp[1] >= cmp[2]

\* One line; ret stops the machine.  `op src, dst` leaves dst op src in dst,
\* `cmp a, b` compares b with a, `sal` and `sar` shift their second operand
\* by the count in their first, idiv divides rax by its operand.
GStep(m, code) ==
    LET i == code[m.pc]
        next == [m EXCEPT !.pc = @ + 1]
        two(f) == GWriteOperand(next, i.b, f)
        dst == GReadOperand(m, i.b)
        src == GReadOperand(m, i.a)
    IN  CASE i.o \in {"label", "func"} -> next
          [] i.o \in {"mov", "movl"} -> two(src)
          [] i.o = "push" ->
                [next EXCEPT !.regs["rsp"] = @ - 8, !.mem = MapPut(@, m.regs["rsp"] - 8, src)]
          [] i.o = "pop" ->
                GWriteOperand([next EXCEPT !.regs["rsp"] = @ + 8], i.a, m.mem[m.regs["rsp"]])
          [] i.o = "neg" -> GWriteOperand(next, i.a, -src)
          [] i.o = "not" -> GWriteOperand(next, i.a, -src - 1)
          [] i.o = "inc" -> GWriteOperand(next, i.a, src + 1)
          [] i.o = "dec" -> GWriteOperand(next, i.a, src - 1)
          [] i.o \in {"and", "or", "xor"} -> two(BitOp(i.o, dst, src))
          [] i.o = "add" -> two(dst + src)
          [] i.o = "sub" -> two(dst - src)
          [] i.o = "imul" -> two(dst * src)
          [] i.o = "sal" -> two(dst * Pow2(src))
          [] i.o = "sar" -> two(dst \div Pow2(src))
          [] i.o = "cqo" -> [next EXCEPT !.regs["rdx"] = IF m.regs["rax"] < 0 THEN -1 ELSE 0]
          [] i.o = "idiv" ->
                [next EXCEPT !.regs["rax"] = Quot(m.regs["rax"], src),
                             !.regs["rdx"] = Rem(m.regs["rax"], src)]
          [] i.o \in {"cmp", "cmpl"} -> [next EXCEPT !.cmp = <<dst, src>>]
          [] i.o \in {"sete", "setne", "setl", "setle", "setg", "setge"} ->
                GWriteOperand(next, i.a,
                    src - (src % 256)
                        + (IF Holds(i.o, m.cmp) THEN 1 ELSE 0))
          [] i.o = "jmp" -> [m EXCEPT !.pc = GLabelIndex(code, i.a)]
          [] i.o \in {"je", "jne"} ->
                IF Holds(i.o, m.cmp)
                    THEN [m EXCEPT !.pc = GLabelIndex(code, i.a)] ELSE next
          [] i.o = "ret" -> [m EXCEPT !.halted = TRUE]
GMachine ==
    [pc |-> 1,
     regs |-> [r \in {"rax", "rbx", "rcx", "rdx", "rbp", "rsp"} |->
                  IF r \in {"rbp", "rsp"} THEN 64 ELSE 0],
     mem |-> EmptyMap, cmp |-> <<0, 0>>, halted |-> FALSE]

(***************************************************************************)
(* Generator inputs: one function main around a binary or unary operator   *)
(* over constants, and functions that use variables.                       *)
(***************************************************************************)

BinOpNames == {map_token_to_ast(t) : t \in BinOpTokens}
UnOpNames == {"Negation", "LogicalNegation", "BitwiseComplement", "Increment", "Decrement"}
OperandValues == {0, 2, 7}

\* int main() { return <a> <op> <b>; }  and  int main() { int x = <a> <op> <b>; return x; }
\* without the divisions by zero.
GenBinOpInputs ==
    {in \in [shape : {"binop"}, op : BinOpNames, a : OperandValues, b : OperandValues,
             place : {"return", "declare"}] :
        in.op \in {"Division", "Modulo"} => in.b # 0}

\* int main() { return <op> <a>; }
GenUnOpInputs == [shape : {"unop"}, op : UnOpNames, a : OperandValues]

\* Functions over variables.
GenPrograms ==
    << \* int main() { int x = 1; x = x + 2; return x; }
       Func("main", << GDeclare("x", Some(Const(1))),
                       GExp(Assign("x", BinOp("Addition", Var("x"), Const(2)))),
                       GReturn(Var("x")) >>),
       \* int main() { int x; int y = 3; return y - x; }
       Func("main", << GDeclare("x", None), GDeclare("y", Some(Const(3))),
                       GReturn(BinOp("Sub", Var("y"), Var("x"))) >>),
       \* int main() { return (7 - 2) << (2 > 0); }
       Func("main", << GReturn(BinOp("BitwiseLeftShift", BinOp("Sub", Const(7), Const(2)),
                                     BinOp("GreaterThan", Const(2), Const(0)))) >>),
       \* int main() { return (0 || 2) && (7 && 0); }
       Func("main", << GReturn(BinOp("And", BinOp("Or", Const(0), Const(2)),
                                     BinOp("And", Const(7), Const(0)))) >>),
       \* int main() { 1; }
       Func("main", << GExp(Const(1)) >>),
       \* int main() { return y; }
       Func("main", << GReturn(Var("y")) >>),
       \* int main() { int x; int x; return 0; }
       Func("main", << GDeclare("x", None), GDeclare("x", None), GReturn(Const(0)) >>),
       \* int main() { y = 1; return 0; }
       Func("main", << GExp(Assign("y", Const(1))), GReturn(Const(0)) >>)
    >>

GenInputs ==
    GenBinOpInputs \cup GenUnOpInputs
        \cup {[shape |-> "program", k |-> k] : k \in 1..Len(GenPrograms)}

GenFunction(in) ==
    CASE in.shape = "binop" ->
            LET exp == BinOp(in.op, Const(in.a), Const(in.b))
            IN  IF in.place = "return" THEN Func("main", <<GReturn(exp)>>)
                ELSE Func("main", <<GDeclare("x", Some(exp)), GReturn(Var("x"))>>)
      [] in.shape = "unop" -> Func("main", <<GReturn(UnOp(in.op, Const(in.a)))>>)
      [] in.shape = "program" -> GenPrograms[in.k]

InitAsm ==
    /\ LexIdle /\ ParseIdle /\ TacIdle /\ BackendIdle /\ RegIdle
    /\ ginput \in GenInputs
    /\ gcode = None
    /\ gmachine = None
    /\ gpc = "start"

\* generator::gen: asm_func.gen(..) returns the code; the function is then run.
GenCode ==
    /\ gpc = "start"
    /\ AsmFunc_gen(GenFunction(ginput), 0).kind = "Ok"
    /\ gcode' = AsmFunc_gen(GenFunction(ginput), 0)
    /\ gmachine' = GMachine
    /\ gpc' = "exec"
    /\ UNCHANGED ginput
    /\ UNCHANGED notAsmVars

\* generator::gen: asm_func.gen(..)? returns Err(GenError).
GenFail ==
    /\ gpc = "start"
    /\ AsmFunc_gen(GenFunction(ginput), 0).kind = "Err"
    /\ gcode' = AsmFunc_gen(GenFunction(ginput), 0)
    /\ gpc' = "error"
    /\ UNCHANGED <<ginput, gmachine>>
    /\ UNCHANGED notAsmVars

\* The machine runs one line of the function.
GenExecStep ==
    /\ gpc = "exec"
    /\ gcode.code[gmachine.pc].o # "ret"
    /\ gmachine' = GStep(gmachine, gcode.code)
    /\ UNCHANGED <<ginput, gcode, gpc>>
    /\ UNCHANGED notAsmVars

\* The machine runs a `ret`: the function returns what rax holds.
GenExecRet ==
    /\ gpc = "exec"
    /\ gcode.code[gmachine.pc].o = "ret"
    /\ gmachine' = GStep(gmachine, gcode.code)
    /\ gpc' = "halt"
    /\ UNCHANGED <<ginput, gcode>>
    /\ UNCHANGED notAsmVars

NextAsm == GenCode \/ GenFail \/ GenExecStep \/ GenExecRet

SpecAsm == InitAsm /\ [][NextAsm]_vars

(***************************************************************************)
(* Generator claims.                                                       *)
(***************************************************************************)

\* The value of `a op b`.
BinOpValue(op, a, b) ==
    LET truth(p) == IF p THEN 1 ELSE 0
    IN  CASE op = "Sub" -> a - b
          [] op = "Division" -> Quot(a, b)
          [] op = "Modulo" -> Rem(a, b)
          [] op = "BitwiseLeftShift" -> a * Pow2(b)
          [] op = "BitwiseRightShift" -> a \div Pow2(b)
          [] op = "LessThan" -> truth(a < b)
          [] op = "LessThanOrEqual" -> truth(a <= b)
          [] op = "GreaterThan" -> truth(a > b)
          [] op = "GreaterThanOrEqual" -> truth(a >= b)

NonCommutativeOps ==
    {"Sub", "Division", "Modulo", "BitwiseLeftShift", "BitwiseRightShift", "LessThan",
     "LessThanOrEqual", "GreaterThan", "GreaterThanOrEqual"}

\* C26: the emitted code keeps the order of the operands of -, /, %, <<, >>,
\* <, <=, >, >=: the function of `return a op b;` (or of `int x = a op b; return
\* x;`) returns the value of a op b, and when a shift instruction is executed
\* the register it shifts holds a and the count register rcx holds b.
C26_OperandOrder ==
    (ginput.shape = "binop" /\ ginput.op \in NonCommutativeOps) =>
        /\ gpc = "halt" =>
              gmachine.regs["rax"] = BinOpValue(ginput.op, ginput.a, ginput.b)
        /\ (gpc = "exec" /\ gcode.code[gmachine.pc].o \in {"sal", "sar"}) =>
              /\ GReadOperand(gmachine, gcode.code[gmachine.pc].b) = ginput.a
              /\ gmachine.regs["rcx"] = ginput.b

\* The lines translated so far that call save (Alloc and Assignment).
SavedLines ==
    {k \in 1..(bnext - 1) : bfunc.instructions[k].inst.i \in {"Alloc", "Assignment"}}

\* C27: after save(id, t, value) for an ID without a place, memory binds id to
\* a stack slot at an offset no other ID's slot has, a later read of id finds
\* it, and a read of an ID without a place aborts nothing: translating the
\* lines never panics at a read, in particular not for Alloc followed by Return
\* of the same ID.
C27_MemoryMap ==
    /\ bpc \in {"lines", "exec", "halt"} =>
          \A k \in SavedLines :
              LET id == parse_id(bfunc.instructions[k].id[1])
              IN  /\ place(backend, id) # None
                  /\ place(backend, id)[1].p = "Stack"
                  /\ \A other \in DOMAIN backend.memory \ {id} :
                        backend.memory[other] # backend.memory[id]
    /\ bpc = "panic" => bfunc.instructions[bnext].inst.i \notin {"Return", "Op", "IfGOTO"}

\* Every arithmetic line of the instruction list is an addition.
OnlyAdds ==
    \A k \in 1..Len(bfunc.instructions) :
        bfunc.instructions[k].inst.i = "Op" =>
            bfunc.instructions[k].inst.op = <<"Arithmetic", "Add">>

\* The instruction list is a sequence of additions followed by one Return.
AddsThenReturn ==
    LET lines == bfunc.instructions
        n == Len(lines)
    IN  /\ n >= 2
        /\ lines[n].inst.i = "Return"
        /\ \A k \in 1..(n - 1) :
              lines[k].inst.i = "Op" /\ lines[k].inst.op = <<"Arithmetic", "Add">>

\* C28: after any sequence of add operations no two IDs of the memory map are
\* bound to the same place, so the result of an earlier add is still in its
\* place after a later add: the function of additions followed by a Return
\* returns the value of the ID it names.
C28_AddPlacesDistinct ==
    /\ (bpc \in {"lines", "exec", "halt"} /\ OnlyAdds) =>
          \A id1, id2 \in DOMAIN backend.memory :
              id1 # id2 => backend.memory[id1] # backend.memory[id2]
    /\ (bpc = "halt" /\ AddsThenReturn /\ FirstReturn # None) =>
          ReadPlace(machine, PlaceRegister(Register_cast(rax, "Doubleword")[1]))
              = FirstReturn[1]

\* The accumulator view of an operand type.
Accumulator(t) ==
    IF t = "Doubleword" THEN Register_new("eax")[1] ELSE Register_new("rax")[1]

WordTypes == {"Doubleword", "Quadword"}
ConstOperands == {0, 10, 20}

\* The instructions an operation appended to the instruction list of b.
Emitted(b, after) == SubSeq(after.asm, Len(b.asm) + 1, Len(after.asm))

\* C29: for a Doubleword or Quadword type t and constant operands,
\* ret(t, v) emits exactly one Mov of v into the accumulator of size t (eax or
\* rax), add(id, t, a, b) emits exactly Mov(acc_t, a) followed by Add(acc_t, b),
\* and ret emits nothing for a value that already lives in that accumulator.
C29_AccumulatorBySize ==
    (bpc \in {"begin", "lines", "exec", "halt"} /\ ~backend.panicked) =>
        \A t \in WordTypes :
            LET acc == PlaceRegister(Accumulator(t))
            IN  /\ \A c \in ConstOperands :
                      LET after == ret(backend, t, ValueConst(c))
                      IN  /\ ~after.panicked
                          /\ Emitted(backend, after) = <<Mov(acc, AsmConst(c, t))>>
                /\ \A x, y \in ConstOperands : \A id \in 0..1 :
                      LET after == add(backend, id, t, ValueConst(x), ValueConst(y))
                          again == ret(after, t, Ref(id))
                      IN  /\ ~after.panicked
                          /\ Emitted(backend, after)
                                = <<Mov(acc, AsmConst(x, t)), Add(acc, AsmConst(y, t))>>
                          /\ ~again.panicked
                          /\ Emitted(after, again) = <<>>
                /\ \A id \in DOMAIN backend.memory :
                      backend.memory[id] = acc =>
                          Emitted(backend, ret(backend, t, Ref(id))) = <<>>

\* A function `t0 = 10 + 20`-like addition of constants followed by a Return of
\* a constant has been generated: the list holds the Mov and Add of the
\* addition and the Mov of the return, and t0 lives in eax.
C29_Witness ==
    /\ bpc = "halt"
    /\ ~backend.panicked
    /\ \E id \in DOMAIN backend.memory : backend.memory[id] = PlaceRegister(Accumulator("Doubleword"))
    /\ \E k \in 1..(Len(backend.asm) - 2) : \E x, y, c \in {1, 2, 10, 20} :
          /\ backend.asm[k] = Mov(PlaceRegister(Accumulator("Doubleword")), AsmConst(x, "Doubleword"))
          /\ backend.asm[k + 1] = Add(PlaceRegister(Accumulator("Doubleword")), AsmConst(y, "Doubleword"))
          /\ backend.asm[k + 2] = Mov(PlaceRegister(Accumulator("Doubleword")), AsmConst(c, "Doubleword"))

(***************************************************************************)
(* REGISTER TABLE  (src/src/generator/x64_translator.rs, impl Register)    *)
(*                                                                         *)
(* The calls Register::new(name), size(), cast(&size) and the cast back to *)
(* the size of the name's register, on every name of the table.            *)
(***************************************************************************)

\* The 64-bit and the 32-bit name of each register of the table.
Views ==
    { <<"rax", "eax">>, <<"rbx", "ebx">>, <<"rcx", "ecx">>, <<"rdx", "edx">>,
      <<"rsi", "esi">>, <<"rdi", "edi">>, <<"rbp", "ebp">>, <<"rsp", "esp">>,
      <<"r8", "r8d">>, <<"r9", "r9d">>, <<"r10", "r10d">>, <<"r11", "r11d">>,
      <<"r12", "r12d">>, <<"r13", "r13d">>, <<"r14", "r14d">>, <<"r15", "r15d">> }
Names64 == {p[1] : p \in Views}
Names32 == {p[2] : p \in Views}
OtherView(name) ==
    IF name \in Names64 THEN (CHOOSE p \in Views : p[1] = name)[2]
    ELSE (CHOOSE p \in Views : p[2] = name)[1]

\* Every entry of the table and a name that is not in it, with the size of the cast.
RegInputs ==
    [name : {REGISTERS[i] : i \in 1..Len(REGISTERS)} \cup {"not_supported_register"},
     size : {"Doubleword", "Quadword"}]

InitReg ==
    /\ LexIdle /\ ParseIdle /\ TacIdle /\ BackendIdle /\ AsmIdle
    /\ rinput \in RegInputs
    /\ rreg = None
    /\ rsize = None
    /\ rpc = "new"

\* Register::new(name)
RegNew ==
    /\ rpc = "new"
    /\ Register_new(rinput.name) # None
    /\ rreg' = Register_new(rinput.name)
    /\ rpc' = "size"
    /\ UNCHANGED <<rinput, rsize>>
    /\ UNCHANGED notRegVars

\* size() of the register
RegSize ==
    /\ rpc = "size"
    /\ Register_size(rreg[1]) # None
    /\ rsize' = Register_size(rreg[1])
    /\ rpc' = "cast"
    /\ UNCHANGED <<rinput, rreg>>
    /\ UNCHANGED notRegVars

\* cast(&size) of the register
RegCast ==
    /\ rpc = "cast"
    /\ Register_cast(rreg[1], rinput.size) # None
    /\ rreg' = Register_cast(rreg[1], rinput.size)
    /\ rpc' = "back"
    /\ UNCHANGED <<rinput, rsize>>
    /\ UNCHANGED notRegVars

\* cast of the result to the size the register of the name had
RegCastBack ==
    /\ rpc = "back"
    /\ Register_cast(rreg[1], rsize[1]) # None
    /\ rreg' = Register_cast(rreg[1], rsize[1])
    /\ rpc' = "done"
    /\ UNCHANGED <<rinput, rsize>>
    /\ UNCHANGED notRegVars

\* The call the sequence is at panics: unwrap() of new, unimplemented!() of
\* size or of cast.
RegPanic ==
    /\ CASE rpc = "new" -> Register_new(rinput.name) = None
         [] rpc = "size" -> Register_size(rreg[1]) = None
         [] rpc = "cast" -> Register_cast(rreg[1], rinput.size) = None
         [] rpc = "back" -> Register_cast(rreg[1], rsize[1]) = None
         [] OTHER -> FALSE
    /\ rpc' = "panic"
    /\ UNCHANGED <<rinput, rreg, rsize>>
    /\ UNCHANGED notRegVars

NextReg == RegNew \/ RegSize \/ RegCast \/ RegCastBack \/ RegPanic

SpecReg == InitReg /\ [][NextReg]_vars

\* C30: for every register name of the table size() is defined, Quadword for
\* the 64-bit names and Doubleword for the 32-bit names; cast to the other size
\* yields the other view of the same register, and the cast back returns the
\* register of the name.
C30_RegisterViews ==
    rinput.name \in Names64 \cup Names32 =>
        /\ rpc # "panic"
        /\ rpc \in {"cast", "back", "done"} =>
              rsize = Some(IF rinput.name \in Names64 THEN "Quadword" ELSE "Doubleword")
        /\ (rpc = "back" /\ rinput.size # rsize[1]) =>
              REGISTERS[rreg[1] + 1] = OtherView(rinput.name)
        /\ rpc = "done" => rreg = Register_new(rinput.name)

====
